---- MODULE Spec2Model ----
(***************************************************************************)
(* Zone attribution and detection memory of the AI home assistant:         *)
(*   zone_definition_tool.py   ZoneDefinitionTool  (writer of zones.json)  *)
(*   visual_memory.py          VisualMemory        (reader, lenient        *)
(*                                                  resolver, detection    *)
(*                                                  log)                   *)
(*   zone_focused_detector.py  ZoneFocusedDetector (reader, strict         *)
(*                                                  resolver, zone-only    *)
(*                                                  worker)                *)
(*   object_detector.py        ObjectDetector      (generic worker, the    *)
(*                                                  detector's threads)    *)
(*   enhanced_home_assistant.py, zone_focused_assistant.py                 *)
(*                             the two assistants  (ask_question,          *)
(*                                                  redefine_zones)        *)
(*   ollama_client.py          OllamaClient        (answer generator)      *)
(*                                                                         *)
(* Numbers.  Pixel coordinates are integers.  A bbox centre x + w/2 may be *)
(* a half, so centres are carried doubled (2x + w) and every comparison of *)
(* the source is multiplied through; the literals 0.33 and 0.67 are the    *)
(* ratios 33/100 and 67/100 (for integer pixels and frame sizes the        *)
(* floating-point comparison agrees with the exact one).  Confidence is    *)
(* carried in percent.                                                     *)
(*                                                                         *)
(* Python values.  A dict is a record, a missing key a field outside       *)
(* DOMAIN.  A tuple or list is [py |-> "tuple" | "list", v |-> <<...>>]:   *)
(* json.dump writes both as a JSON array and json.load reads an array back *)
(* as a list.                                                              *)
(*                                                                         *)
(* zones.json.  The file is [exists, text]; text is the sequence of JSON   *)
(* tokens written so far.  One token stands for "[", "]", "," or the whole *)
(* text of one object: any proper prefix of an array document is not a     *)
(* JSON document, wherever it is cut.                                      *)
(*                                                                         *)
(* Time.  datetime.now() is a clock counted in half seconds; a timestamp   *)
(* is the text isoformat() makes of it, and SQLite compares and orders     *)
(* timestamps as text.                                                     *)
(*                                                                         *)
(* Specifications.  SpecStore: the tool's save against loads.  SpecResolve:*)
(* the two resolvers on one input.  SpecIngest: the two pipelines with the *)
(* tool beside them.  SpecFrames: the pipelines on detections that need    *)
(* not be well formed.  SpecLife: start, stop and the worker threads.      *)
(* SpecLog: the calls on the detection log.  SpecTool: one run of the zone *)
(* definition tool, mouse and keys.  SpecEdit: redefine_zones beside the   *)
(* worker.  SpecAsk: start, stop and ask_question against a server that    *)
(* comes and goes.  SpecGenerate: generate_response alone, its steps       *)
(* weakly fair.                                                            *)
(***************************************************************************)
EXTENDS Integers, Sequences, FiniteSets, TLC

VARIABLES
  zoneFile,     \* zones.json: [exists |-> BOOLEAN, text |-> sequence of tokens]
  toolZones,    \* ZoneDefinitionTool.zones
  savePc,       \* save_zones: "idle" | "writing" (file open for 'w')
  savePending,  \* tokens json.dump has produced and the file object not yet written
  saveRet,      \* the last save_zones: "none" | "ok" | "failed_open" | "failed_write"
  savePrior,    \* history: what a load returned when the last save_zones began
  saveNew,      \* history: the zones the last save_zones was given
  saveCount,    \* number of save_zones calls so far
  vmLoad,       \* history: the last VisualMemory.load_custom_zones
  detZones,     \* ZoneFocusedDetector.zones
  detLoad,      \* history: the last ZoneFocusedDetector.load_zones
  mode,         \* "generic" (ObjectDetector) | "zone_only" (ZoneFocusedDetector)
  wpc,          \* worker thread position
  frame,        \* the captured frame: [w, h, boxes]
  frameZonesEmpty, \* history: `not self.zones` as read at the head of detect_objects_in_zones
  detections,   \* the list the detect_* call builds / has returned
  idx,          \* loop index into frame.boxes or detections
  log,          \* object_detections table, in insertion order
  framesRead,   \* history: frames cap.read() has returned to the worker
  rIn,          \* resolver input: [zones, bbox, frame_size]
  rOut,         \* resolver outputs: [done, strict, lenient]
  readInFrame,  \* history: a pipeline has read zones.json while processing a frame
  now,          \* the local clock datetime.now() reads, in half seconds
  locations,    \* locations table: name -> row
  qOut,         \* the call just made on VisualMemory: [op, args, at, rows]
  is_detecting, \* the detector's flag
  detection_thread, \* the detector's thread handle: 0 (None) or a thread
  threads,      \* the threads started so far: [pc, left, killed, sawStop]
  callerPc,     \* the thread calling the detector: "idle" | "joining"
  lastStop,     \* history: the last stop_detection that returned
  toolPc,       \* ZoneDefinitionTool.run: "off" | "loop" | "input" | "done" (returned) |
                \* "reload" (redefine_zones before the detector's load_zones)
  runRet,       \* what the last run returned: "none" | "True" | "False"
  drawing,      \* ZoneDefinitionTool.drawing
  start_point,  \* ZoneDefinitionTool.start_point: <<>> (None) or <<x, y>>
  end_point,    \* ZoneDefinitionTool.end_point: <<>> (None) or <<x, y>>
  current_zone, \* ZoneDefinitionTool.current_zone: <<>> (None) or <<start, end>>
  savedInRun,   \* history: save_zones has returned True during this run
  markerFile,   \* zones.json.updated, the file beside zones.json
  is_running,   \* the assistant's flag
  service,      \* the Ollama server at base_url: "up" | "down"
  ask           \* the call on the assistant or its client, and its answer

vars == <<zoneFile, toolZones, savePc, savePending, saveRet, savePrior, saveNew,
          saveCount, vmLoad, detZones, detLoad, mode, wpc, frame, frameZonesEmpty,
          detections, idx, log, framesRead, rIn, rOut, readInFrame, now, locations,
          qOut, is_detecting, detection_thread, threads, callerPc, lastStop,
          toolPc, runRet, drawing, start_point, end_point, current_zone, savedInRun, markerFile,
          is_running, service, ask>>

storeVars  == <<zoneFile, toolZones, savePc, savePending, saveRet, savePrior,
                saveNew, saveCount>>
workerVars == <<mode, wpc, frame, frameZonesEmpty, detections, idx, log, framesRead>>
resolveVars == <<rIn, rOut>>
queryVars  == <<now, locations, qOut>>
lifeVars   == <<is_detecting, detection_thread, threads, callerPc, lastStop>>
toolVars   == <<toolPc, runRet, drawing, start_point, end_point, current_zone, savedInRun, markerFile>>
askVars    == <<is_running, service, ask>>

----------------------------------------------------------------------------
(* Bounds *)

MaxZones   == 2    \* zones in a zone set
MaxSaves   == 1    \* save_zones calls in a run
MaxBoxes   == 2    \* boxes the model returns for one frame
MaxFrames  == 2    \* frames the worker captures
MaxLog     == 3    \* rows add_detection is called for in a run of the log's queries
MaxTick    == 1    \* the clock's range, in half seconds, in those runs
MaxStarts  == 2    \* start_continuous_detection calls on one detector
MaxAsked   == 2    \* rows in the log when a question is asked

----------------------------------------------------------------------------
(* Sequences *)

SeqsUpTo(S, n) == UNION {[1..k -> S] : k \in 0..n}

----------------------------------------------------------------------------
(* Python containers *)

PyTuple(s) == [py |-> "tuple", v |-> s]
PyList(s)  == [py |-> "list", v |-> s]

----------------------------------------------------------------------------
(* Zones *)

ZoneNames == {"desk", "bed"}
ZoneRects == {<<0, 0, 50, 50>>, <<0, 0, 100, 100>>, <<50, 50, 50, 50>>}

\* zone_definition_tool.py:48-51: the dict the mouse callback appends.
NewZone(name, rect) == [name |-> name, bbox |-> PyTuple(rect)]

DrawnZones == {NewZone(n, r) : n \in ZoneNames, r \in ZoneRects}

\* A zone as (name, bbox numbers); a dict without "bbox" is left as it is.
Entry(z) == IF "bbox" \in DOMAIN z THEN [name |-> z.name, bbox |-> z.bbox.v] ELSE z
Entries(zs) == [i \in 1..Len(zs) |-> Entry(zs[i])]

WellFormed(zs) == \A i \in 1..Len(zs) : "bbox" \in DOMAIN zs[i] /\ Len(zs[i].bbox.v) = 4

----------------------------------------------------------------------------
(* json.dump / json.load of a zone list *)

LB    == [t |-> "["]
RB    == [t |-> "]"]
COMMA == [t |-> ","]

\* The encoder writes a tuple and a list alike as an array.
EncodeObj(z) == [t |-> "obj", members |-> Entry(z)]

\* The decoder reads an array as a list.
DecodeObj(tok) ==
  IF "bbox" \in DOMAIN tok.members
    THEN [name |-> tok.members.name, bbox |-> PyList(tok.members.bbox)]
    ELSE tok.members

RECURSIVE DumpItems(_, _)
DumpItems(zs, i) ==
  IF i > Len(zs) THEN <<>>
  ELSE (IF i > 1 THEN <<COMMA>> ELSE <<>>) \o <<EncodeObj(zs[i])>> \o DumpItems(zs, i + 1)

json_dump_drop_last(zs) ==
  <<LB>> \o DumpItems(IF zs = <<>> THEN zs ELSE SubSeq(zs, 1, Len(zs) - 1), 1) \o <<RB>>

json_dump(zs) == <<LB>> \o DumpItems(zs, 1) \o <<RB>>

\* Parse text[i..] as the rest of an array after "[" : items separated by ",",
\* closed by "]" which must be the last token.  needItem: an item must come next.
RECURSIVE LoadItems(_, _, _, _)
LoadItems(text, i, acc, needItem) ==
  IF i > Len(text) THEN [ok |-> FALSE, value |-> <<>>]
  ELSE IF text[i].t = "obj" THEN
         IF needItem THEN LoadItems(text, i + 1, Append(acc, DecodeObj(text[i])), FALSE)
         ELSE [ok |-> FALSE, value |-> <<>>]
  ELSE IF text[i].t = "," THEN
         IF needItem THEN [ok |-> FALSE, value |-> <<>>]
         ELSE LoadItems(text, i + 1, acc, TRUE)
  ELSE IF text[i].t = "]" THEN
         IF (needItem /\ acc # <<>>) \/ i # Len(text) THEN [ok |-> FALSE, value |-> <<>>]
         ELSE [ok |-> TRUE, value |-> acc]
  ELSE [ok |-> FALSE, value |-> <<>>]

\* ok = FALSE stands for json.JSONDecodeError.
json_load(text) ==
  IF text = <<>> \/ text[1].t # "[" THEN [ok |-> FALSE, value |-> <<>>]
  ELSE LoadItems(text, 2, <<>>, TRUE)

----------------------------------------------------------------------------
(* The zone file and its readers *)

File(text) == [exists |-> TRUE, text |-> text]
NoFile     == [exists |-> FALSE, text |-> <<>>]

\* "absent" | "corrupt" (not JSON) | "malformed" (JSON, not zones) | "valid"
FileKind(f) ==
  IF ~f.exists THEN "absent"
  ELSE IF ~json_load(f.text).ok THEN "corrupt"
  ELSE IF ~WellFormed(json_load(f.text).value) THEN "malformed"
  ELSE "valid"

\* VisualMemory.load_custom_zones: the parsed value, [] when the file is
\* absent or json.load raises.
load_custom_zones(f) ==
  IF f.exists
    THEN IF json_load(f.text).ok THEN json_load(f.text).value ELSE <<>>
    ELSE <<>>

\* ZoneFocusedDetector.load_zones / ZoneDefinitionTool.load_zones: self.zones
\* is assigned only when the file exists and json.load succeeds.
load_zones_ok(f) == f.exists /\ json_load(f.text).ok
load_zones_keeps_held(f, cur) == cur

load_zones(f, cur) == IF load_zones_ok(f) THEN json_load(f.text).value ELSE cur

NoLoad == [done |-> FALSE, result |-> <<>>, kind |-> "absent", during |-> FALSE,
           ret |-> "none", prior |-> <<>>, new |-> <<>>, held |-> <<>>,
           saves |-> 0, frame |-> 0]

\* What a load leaves in the history variables: its result, the kind of file it
\* read, whether a save_zones was writing, what the last save_zones had returned,
\* the sets before and in that save, the set the reader held before, and how
\* many save_zones calls and captured frames there had been.
LoadRecord(result, held) ==
  [done |-> TRUE, result |-> result, kind |-> FileKind(zoneFile),
   during |-> (savePc = "writing"), ret |-> saveRet, prior |-> savePrior,
   new |-> saveNew, held |-> held, saves |-> saveCount, frame |-> framesRead]

\* A reader thread calls VisualMemory.load_custom_zones("zones.json").
VmLoad ==
  /\ vmLoad' = LoadRecord(load_custom_zones(zoneFile), <<>>)
  /\ UNCHANGED <<storeVars, detZones, detLoad, workerVars, resolveVars, queryVars, lifeVars, readInFrame, toolVars, askVars>>

\* ZoneFocusedDetector.load_zones().
DetLoad ==
  /\ detZones' = load_zones(zoneFile, detZones)
  /\ detLoad' = LoadRecord(load_zones(zoneFile, detZones), detZones)
  /\ UNCHANGED <<storeVars, vmLoad, workerVars, resolveVars, queryVars, lifeVars, readInFrame, toolVars, askVars>>

----------------------------------------------------------------------------
(* ZoneDefinitionTool: save_zones, load_zones *)

\* 'S' key (run, lines 170-174) -> save_zones: open(filename, 'w') creates or
\* truncates zones.json; json.dump then produces the text.
SaveOpen ==
  /\ savePc = "idle"
  /\ saveCount < MaxSaves
  /\ toolZones # <<>>
  /\ savePc' = "writing"
  /\ zoneFile' = File(<<>>)
  /\ savePending' = json_dump(toolZones)
  /\ savePrior' = load_custom_zones(zoneFile)
  /\ saveNew' = toolZones
  /\ saveRet' = "none"
  /\ saveCount' = saveCount + 1
  /\ UNCHANGED <<toolZones, vmLoad, detZones, detLoad, workerVars, resolveVars, queryVars, lifeVars, readInFrame, toolVars, askVars>>

\* open() itself raises (no permission): nothing is written, False is returned.
SaveOpenFail ==
  /\ savePc = "idle"
  /\ saveCount < MaxSaves
  /\ toolZones # <<>>
  /\ saveRet' = "failed_open"
  /\ saveCount' = saveCount + 1
  /\ UNCHANGED <<zoneFile, toolZones, savePc, savePending, savePrior, saveNew,
                 vmLoad, detZones, detLoad, workerVars, resolveVars, queryVars, lifeVars, readInFrame, toolVars, askVars>>

\* The file object writes part of the text to zones.json.
SaveWrite ==
  /\ savePc = "writing"
  /\ savePending # <<>>
  /\ zoneFile' = File(zoneFile.text \o <<Head(savePending)>>)
  /\ savePending' = Tail(savePending)
  /\ UNCHANGED <<toolZones, savePc, saveRet, savePrior, saveNew, saveCount,
                 vmLoad, detZones, detLoad, workerVars, resolveVars, queryVars, lifeVars, readInFrame, toolVars, askVars>>

\* Leaving the with block writes what is left and closes; save_zones returns
\* True.  Called from run ('S', lines 170-174) the loop breaks, `finally`
\* releases the camera and run returns len(self.zones) > 0.
SaveClose ==
  /\ savePc = "writing"
  /\ zoneFile' = File(zoneFile.text \o savePending)
  /\ savePending' = <<>>
  /\ savePc' = "idle"
  /\ saveRet' = "ok"
  /\ IF toolPc = "loop"
       THEN /\ toolPc' = "done"
            /\ runRet' = IF Len(toolZones) > 0 THEN "True" ELSE "False"
            /\ savedInRun' = TRUE
       ELSE UNCHANGED <<toolPc, runRet, savedInRun>>
  /\ UNCHANGED <<toolZones, savePrior, saveNew, saveCount,
                 vmLoad, detZones, detLoad, workerVars, resolveVars, queryVars, lifeVars,
                 readInFrame, drawing, start_point, end_point, current_zone, markerFile, askVars>>

\* A write raises (disk full, I/O error): the except branch returns False and
\* zones.json keeps what had been written.
SaveFail ==
  /\ savePc = "writing"
  /\ savePending # <<>>
  /\ savePending' = <<>>
  /\ savePc' = "idle"
  /\ saveRet' = "failed_write"
  /\ UNCHANGED <<zoneFile, toolZones, savePrior, saveNew, saveCount,
                 vmLoad, detZones, detLoad, workerVars, resolveVars, queryVars, lifeVars, readInFrame, toolVars, askVars>>

\* 'L' key / start of run: ZoneDefinitionTool.load_zones().
ToolLoad ==
  /\ savePc = "idle"
  /\ toolZones' = load_zones(zoneFile, toolZones)
  /\ UNCHANGED <<zoneFile, savePc, savePending, saveRet, savePrior, saveNew,
                 saveCount, vmLoad, detZones, detLoad, workerVars, resolveVars, queryVars, lifeVars, readInFrame, toolVars, askVars>>

----------------------------------------------------------------------------
(* Zone resolution *)

Raise == "raise KeyError"

\* Twice the centre of an (x, y, w, h) bbox: (x + w/2, y + h/2).
Center2(bbox) == <<2 * bbox[1] + bbox[3], 2 * bbox[2] + bbox[4]>>

TopLeftXyxy2(xyxy) == <<2 * xyxy[1], 2 * xyxy[2]>>

\* Twice the centre of an (x1, y1, x2, y2) box: ((x1 + x2)/2, (y1 + y2)/2).
CenterXyxy2(xyxy) == <<xyxy[1] + xyxy[3], xyxy[2] + xyxy[4]>>

is_point_in_zone_strict_edges(p2, zone) ==
  LET b == zone.bbox.v
  IN  /\ 2 * b[1] < p2[1] /\ p2[1] < 2 * (b[1] + b[3])
      /\ 2 * b[2] < p2[2] /\ p2[2] < 2 * (b[2] + b[4])

\* zone_x <= x <= zone_x + zone_w and zone_y <= y <= zone_y + zone_h
is_point_in_zone(p2, zone) ==
  LET b == zone.bbox.v
  IN  /\ 2 * b[1] <= p2[1] /\ p2[1] <= 2 * (b[1] + b[3])
      /\ 2 * b[2] <= p2[2] /\ p2[2] <= 2 * (b[2] + b[4])

\* for zone in self.zones: the first zone holding the point; zone["bbox"] of a
\* dict without that key raises, and so does zone["name"] of the zone that
\* holds the point; "outside_zones" when the loop ends.
RECURSIVE ZoneLoop(_, _, _)
ZoneLoop(zones, i, p2) ==
  IF i > Len(zones) THEN "outside_zones"
  ELSE IF "bbox" \notin DOMAIN zones[i] THEN Raise
  ELSE IF is_point_in_zone(p2, zones[i])
         THEN (IF "name" \in DOMAIN zones[i] THEN zones[i].name ELSE Raise)
  ELSE ZoneLoop(zones, i + 1, p2)

\* ZoneFocusedDetector.get_zone_for_point over self.zones
get_zone_for_point(zones, p2) == ZoneLoop(zones, 1, p2)

Region_le(c2, size, low, mid, high) ==
  IF 100 * c2 <= 2 * 33 * size THEN low
  ELSE IF 100 * c2 <= 2 * 67 * size THEN mid
  ELSE high

\* rel < 0.33 / rel < 0.67 with rel = centre / size, size > 0
Region(c2, size, low, mid, high) ==
  IF 100 * c2 < 2 * 33 * size THEN low
  ELSE IF 100 * c2 < 2 * 67 * size THEN mid
  ELSE high

AreaLabel ==
  [y \in {"top", "middle", "bottom"} |-> [x \in {"left", "center", "right"} |->
     IF y = "top" THEN (IF x = "left" THEN "top-left area"
                        ELSE IF x = "center" THEN "top-center area" ELSE "top-right area")
     ELSE IF y = "middle" THEN (IF x = "left" THEN "middle-left area"
                        ELSE IF x = "center" THEN "middle-center area" ELSE "middle-right area")
     ELSE (IF x = "left" THEN "bottom-left area"
                        ELSE IF x = "center" THEN "bottom-center area" ELSE "bottom-right area")]]

QuadrantLabels == {AreaLabel[y][x] : y \in {"top", "middle", "bottom"}, x \in {"left", "center", "right"}}

\* The generic mapping of get_location_for_bbox (lines 195-214);
\* frame_width, frame_height = frame_size.
generic_area(c2, frame_size) ==
  AreaLabel[Region(c2[2], frame_size[2], "top", "middle", "bottom")]
           [Region(c2[1], frame_size[1], "left", "center", "right")]

\* The loop of get_location_for_bbox over custom_zones (lines 186-193):
\* zone["bbox"] is unpacked and zone["name"] read (KeyError without the key),
\* then
\* zone_x <= center_x <= zone_x + zone_w and zone_y <= center_y <= zone_y + zone_h
\* is tested, and the first zone that passes is returned; "" when the loop ends.
RECURSIVE CustomZoneLoop(_, _, _)
CustomZoneLoop(custom_zones, i, c2) ==
  IF i > Len(custom_zones) THEN ""
  ELSE IF "bbox" \notin DOMAIN custom_zones[i] THEN Raise
  ELSE IF "name" \notin DOMAIN custom_zones[i] THEN Raise
  ELSE LET b == custom_zones[i].bbox.v
       IN  IF /\ 2 * b[1] <= c2[1] /\ c2[1] <= 2 * (b[1] + b[3])
              /\ 2 * b[2] <= c2[2] /\ c2[2] <= 2 * (b[2] + b[4])
             THEN custom_zones[i].name
             ELSE CustomZoneLoop(custom_zones, i + 1, c2)

\* VisualMemory.get_location_for_bbox(bbox, frame_size, zones_file): the zones
\* are loaded from the file on every call.
get_location_for_bbox(bbox, frame_size, f) ==
  LET hit == CustomZoneLoop(load_custom_zones(f), 1, Center2(bbox))
  IN  IF hit # "" THEN hit ELSE generic_area(Center2(bbox), frame_size)

----------------------------------------------------------------------------
(* Detection log *)

\* TEXT values.  Where a claim rests on how SQLite compares text (the log's
\* queries), a text is the sequence of its characters; elsewhere a TLA+ string
\* stands for the whole text.  A timestamp is the text isoformat() produces.

\* datetime.isoformat() of the clock value t (half seconds): the fixed-width
\* part up to the seconds, then ".500000"; the fraction is left out when the
\* microseconds are 0.
isoformat(t) == IF t % 2 = 0 THEN <<t \div 2>> ELSE <<t \div 2, 5>>

add_detection_or_replace(rows, clock, object_name, confidence, bbox, frame_size, location_description, hist) ==
  SubSeq(rows, 1, Len(rows) - 1)
    \o <<[id |-> IF rows = <<>> THEN 1 ELSE Len(rows),
          timestamp |-> isoformat(clock),
          object_name |-> object_name,
          confidence |-> confidence,
          bbox |-> bbox,
          frame_width |-> frame_size[1],
          frame_height |-> frame_size[2],
          location_description |-> location_description,
          hist |-> hist]>>

\* VisualMemory.add_detection: one row appended, id from AUTOINCREMENT;
\* timestamp = datetime.datetime.now().isoformat(); frame_width, frame_height =
\* frame_size.  hist is history, not a column: the pipeline and path that wrote
\* the row, the frame's pixel width and height, and the zone set the location
\* was resolved against.
add_detection(rows, clock, object_name, confidence, bbox, frame_size, location_description, hist) ==
  Append(rows, [id |-> Len(rows) + 1,
                timestamp |-> isoformat(clock),
                object_name |-> object_name,
                confidence |-> confidence,
                bbox |-> bbox,
                frame_width |-> frame_size[1],
                frame_height |-> frame_size[2],
                location_description |-> location_description,
                hist |-> hist])

----------------------------------------------------------------------------
(* The detector boundary: what the model returns for a frame *)

\* boxes as (x1, y1, x2, y2), confidence in percent
RawBoxes == << [class_name |-> "phone", confidence |-> 90, xyxy |-> <<10, 10, 15, 15>>],
               [class_name |-> "book",  confidence |-> 40, xyxy |-> <<90, 90, 95, 95>>],
               [class_name |-> "cup",   confidence |-> 70, xyxy |-> <<140, 40, 160, 60>>] >>

\* (pixel width, pixel height) of a captured frame
FrameSizes == {<<100, 100>>, <<200, 100>>}

InFrame(box, size) == box.xyxy[3] <= size[1] /\ box.xyxy[4] <= size[2]

RECURSIVE Pick(_, _, _)
Pick(seq, S, i) ==
  IF i > Len(seq) THEN <<>>
  ELSE (IF i \in S THEN <<seq[i]>> ELSE <<>>) \o Pick(seq, S, i + 1)

\* The frames the camera and the model can deliver: a size and at most MaxBoxes
\* boxes inside it.
Frames ==
  {[w |-> size[1], h |-> size[2], boxes |-> Pick(RawBoxes, S, 1)] :
     size \in FrameSizes,
     S \in {T \in SUBSET (1..Len(RawBoxes)) : Cardinality(T) <= MaxBoxes}}

FramesInBounds == {f \in Frames : \A i \in 1..Len(f.boxes) : InFrame(f.boxes[i], <<f.w, f.h>>)}

\* x, y, w, h = x1, y1, x2-x1, y2-y1
XywhOf(xyxy) == PyTuple(<<xyxy[1], xyxy[2], xyxy[3] - xyxy[1], xyxy[4] - xyxy[2]>>)

\* frame.shape[:2] of a numpy image: (rows, columns) = (height, width)
shape2(f) == <<f.h, f.w>>

----------------------------------------------------------------------------
(* ObjectDetector: the generic worker *)

\* ObjectDetector.detect_objects: every box becomes a detection dict.
detect_objects(boxes) ==
  [i \in 1..Len(boxes) |->
     [class_name |-> boxes[i].class_name, confidence |-> boxes[i].confidence,
      bbox |-> XywhOf(boxes[i].xyxy)]]

\* start_continuous_detection: the thread is started.
GenericStart ==
  /\ mode = "generic" /\ wpc = "off"
  /\ wpc' = "loop"
  /\ UNCHANGED <<storeVars, vmLoad, detZones, detLoad, mode, frame, frameZonesEmpty,
                 detections, idx, log, framesRead, resolveVars, queryVars, lifeVars, readInFrame, toolVars, askVars>>

\* One pass of the loop up to the save: cap.read(), detect_objects(frame),
\* `if frame_count % save_interval == 0 and detections` (save_interval = 1).
GenericCaptureOf(F) ==
  /\ mode = "generic" /\ wpc = "loop"
  /\ framesRead < MaxFrames
  /\ \E f \in F :
       /\ frame' = f
       /\ detections' = detect_objects(f.boxes)
       /\ wpc' = IF f.boxes = <<>> THEN "loop" ELSE "save"
       /\ idx' = IF f.boxes = <<>> THEN 0 ELSE 1
  /\ framesRead' = framesRead + 1
  /\ UNCHANGED <<storeVars, vmLoad, detZones, detLoad, mode, frameZonesEmpty, log,
                 resolveVars, queryVars, lifeVars, readInFrame, toolVars, askVars>>

\* The pass over the frames the camera and the model deliver inside the frame.
GenericCapture == GenericCaptureOf(FramesInBounds)

\* ObjectDetector._save_detections_to_memory(detections, frame.shape[:2]), one
\* detection: get_location_for_bbox reads zones.json (load_custom_zones, line
\* 184 of visual_memory.py), add_detection appends.
\* An exception leaves the loop through `finally` and ends the thread.
GenericSave ==
  /\ mode = "generic" /\ wpc = "save"
  /\ LET d   == detections[idx]
         loc == get_location_for_bbox(d.bbox.v, shape2(frame), zoneFile)
     IN  IF loc = Raise
           THEN /\ wpc' = "dead"
                /\ UNCHANGED <<log, idx>>
           ELSE /\ log' = add_detection(log, now, d.class_name, d.confidence, d.bbox,
                                        shape2(frame), loc,
                                        [mode |-> "generic", path |-> "lenient",
                                         frame |-> framesRead, w |-> frame.w, h |-> frame.h,
                                         zones |-> load_custom_zones(zoneFile)])
                /\ idx' = IF idx = Len(detections) THEN 0 ELSE idx + 1
                /\ wpc' = IF idx = Len(detections) THEN "loop" ELSE "save"
  /\ readInFrame' = TRUE
  /\ UNCHANGED <<storeVars, vmLoad, detZones, detLoad, mode, frame, frameZonesEmpty,
                 detections, framesRead, resolveVars, queryVars, lifeVars,
                 toolVars, askVars>>

----------------------------------------------------------------------------
(* ZoneFocusedDetector: the zone-only worker *)

\* detect_objects_full_frame: every box, zone_name 'full_frame'.
detect_objects_full_frame(boxes) ==
  [i \in 1..Len(boxes) |->
     [class_name |-> boxes[i].class_name, confidence |-> boxes[i].confidence,
      bbox |-> XywhOf(boxes[i].xyxy), zone_name |-> "full_frame", zones |-> <<>>]]
\* (zones is history, not a key of the dict: the zone set the box was resolved against)

keep_every_box(zone_name) == TRUE

\* `if zone_name != "outside_zones"` (line 77)
keep_box(zone_name) == zone_name # "outside_zones"

\* start_continuous_detection: load_zones(), then the thread is started.
ZoneStart ==
  /\ mode = "zone_only" /\ wpc = "off"
  /\ detZones' = load_zones(zoneFile, detZones)
  /\ wpc' = "loop"
  /\ UNCHANGED <<storeVars, vmLoad, detLoad, mode, frame, frameZonesEmpty, detections, idx,
                 log, framesRead, resolveVars, queryVars, lifeVars, readInFrame, toolVars, askVars>>

\* cap.read() and the head of detect_objects_in_zones: with no zones the
\* full-frame fallback builds the whole list; otherwise the box loop starts.
\* When the list is complete the frame is drawn (ZoneDraw).
ZoneCaptureOf(F) ==
  /\ mode = "zone_only" /\ wpc = "loop"
  /\ framesRead < MaxFrames
  /\ \E f \in F :
       /\ frame' = f
       /\ IF detZones = <<>>
            THEN /\ detections' = detect_objects_full_frame(f.boxes)
                 /\ wpc' = "draw"
                 /\ idx' = 0
            ELSE /\ detections' = <<>>
                 /\ wpc' = IF f.boxes = <<>> THEN "draw" ELSE "detect"
                 /\ idx' = IF f.boxes = <<>> THEN 0 ELSE 1
  /\ frameZonesEmpty' = (detZones = <<>>)
  /\ framesRead' = framesRead + 1
  /\ UNCHANGED <<storeVars, vmLoad, detZones, detLoad, mode, log, resolveVars, queryVars,
                 lifeVars, readInFrame, toolVars, askVars>>

ZoneCapture == ZoneCaptureOf(FramesInBounds)

\* One box of the loop of detect_objects_in_zones (lines 63-88): the centre is
\* resolved against self.zones as it is now; a box outside all zones is dropped.
\* After the last box the frame is drawn (ZoneDraw).
ZoneDetectBox ==
  /\ mode = "zone_only" /\ wpc = "detect"
  /\ LET box       == frame.boxes[idx]
         zone_name == get_zone_for_point(detZones, CenterXyxy2(box.xyxy))
         kept      == IF keep_box(zone_name)
                        THEN Append(detections,
                                    [class_name |-> box.class_name,
                                     confidence |-> box.confidence,
                                     bbox |-> XywhOf(box.xyxy),
                                     zone_name |-> zone_name,
                                     zones |-> detZones])
                        ELSE detections
     IN  IF zone_name = Raise
           THEN /\ wpc' = "dead"
                /\ UNCHANGED <<detections, idx>>
           ELSE /\ detections' = kept
                /\ idx' = IF idx < Len(frame.boxes) THEN idx + 1 ELSE 0
                /\ wpc' = IF idx < Len(frame.boxes) THEN "detect" ELSE "draw"
  /\ UNCHANGED <<storeVars, vmLoad, detZones, detLoad, mode, frame, frameZonesEmpty,
                 log, framesRead, resolveVars, queryVars, lifeVars, readInFrame, toolVars, askVars>>

\* draw_detections, `for zone in self.zones` (lines 119-121): zone["bbox"] and
\* zone["name"] are read of every zone, and a dict without one of them raises.
draw_zones(zones) ==
  IF \E i \in DOMAIN zones : "bbox" \notin DOMAIN zones[i] \/ "name" \notin DOMAIN zones[i]
    THEN Raise ELSE "drawn"

\* self.draw_detections(frame, detections) on self.zones as it is now (line
\* 196), imshow, then `if frame_count % save_interval == 0 and detections`
\* (save_interval = 1).  An exception ends the thread through `finally`.
ZoneDraw ==
  /\ mode = "zone_only" /\ wpc = "draw"
  /\ IF draw_zones(detZones) = Raise
       THEN /\ wpc' = "dead"
            /\ UNCHANGED idx
       ELSE /\ wpc' = IF detections = <<>> THEN "loop" ELSE "save"
            /\ idx' = IF detections = <<>> THEN 0 ELSE 1
  /\ UNCHANGED <<storeVars, vmLoad, detZones, detLoad, mode, frame, frameZonesEmpty,
                 detections, log, framesRead, resolveVars, queryVars, lifeVars, readInFrame,
                 toolVars, askVars>>

\* ZoneFocusedDetector._save_detections_to_memory, one detection:
\* location_description = detection.get('zone_name', 'unknown_zone').
ZoneSave ==
  /\ mode = "zone_only" /\ wpc = "save"
  /\ LET d == detections[idx]
     IN  log' = add_detection(log, now, d.class_name, d.confidence, d.bbox, shape2(frame),
                              d.zone_name,
                              [mode |-> "zone_only",
                               path |-> IF frameZonesEmpty THEN "full_frame" ELSE "zones",
                               frame |-> framesRead, w |-> frame.w, h |-> frame.h, zones |-> d.zones])
  /\ idx' = IF idx = Len(detections) THEN 0 ELSE idx + 1
  /\ wpc' = IF idx = Len(detections) THEN "loop" ELSE "save"
  /\ UNCHANGED <<storeVars, vmLoad, detZones, detLoad, mode, frame, frameZonesEmpty,
                 detections, framesRead, resolveVars, queryVars, lifeVars, readInFrame, toolVars, askVars>>

\* ZoneFocusedAIHomeAssistant.redefine_zones, after the tool has returned:
\* object_detector.load_zones() on the prompt thread while the worker runs.
ZoneReload ==
  /\ mode = "zone_only" /\ wpc # "off"
  /\ savePc = "idle"
  /\ detZones' = load_zones(zoneFile, detZones)
  /\ UNCHANGED <<storeVars, vmLoad, detLoad, workerVars, resolveVars, queryVars, lifeVars, readInFrame, toolVars, askVars>>

----------------------------------------------------------------------------
(* Zone Store: the tool's save against concurrent loads *)

\* A zones.json without "bbox" in its object (hand-edited).
MalformedText == <<LB, [t |-> "obj", members |-> [name |-> "desk"]], RB>>

\* The zones the tool's user draws in these runs.
StoreZones == {NewZone("desk", <<0, 0, 50, 50>>), NewZone("bed", <<0, 0, 100, 100>>),
               NewZone("bed", <<50, 50, 50, 50>>)}

PriorSets == {<<>>,
              <<NewZone("desk", <<0, 0, 50, 50>>)>>,
              <<NewZone("bed", <<0, 0, 100, 100>>), NewZone("desk", <<0, 0, 50, 50>>)>>}

InitFiles == {NoFile, File(<<>>), File(<<LB, EncodeObj(NewZone("desk", <<0, 0, 50, 50>>))>>),
              File(MalformedText)}
             \cup {File(json_dump(zs)) : zs \in PriorSets}

NoFrame == [w |-> 0, h |-> 0, boxes |-> <<>>]
NoInput == [zones |-> <<>>, bbox |-> <<0, 0, 0, 0>>, frame_size |-> <<0, 0>>]
NoOutput == [done |-> FALSE, strict |-> "", lenient |-> ""]

WorkerIdle ==
  /\ mode = "generic" /\ wpc = "off" /\ frame = NoFrame /\ frameZonesEmpty = FALSE
  /\ detections = <<>> /\ idx = 0 /\ log = <<>> /\ framesRead = 0

ResolveIdle == rIn = NoInput /\ rOut = NoOutput

NoQuery == [op |-> "none"]
NoStop == [returned |-> FALSE, alive |-> {}]

\* No call on the log's queries: the clock stands, nothing has been asked.
QueryIdle == now = 0 /\ locations = <<>> /\ qOut = NoQuery

\* The zone tool as __init__ leaves it, run not called; no file beside zones.json.
ToolIdle ==
  /\ toolPc = "off" /\ runRet = "none" /\ drawing = FALSE /\ start_point = <<>>
  /\ end_point = <<>> /\ current_zone = <<>> /\ savedInRun = FALSE /\ markerFile = NoFile

NoAsk == [op |-> "none"]

\* No question asked: the assistant as __init__ leaves it, the server down.
AskIdle == is_running = FALSE /\ service = "down" /\ ask = NoAsk

\* No detector lifecycle: the flag and the handle as __init__ leaves them.
LifeIdle ==
  /\ is_detecting = FALSE /\ detection_thread = 0 /\ threads = <<>>
  /\ callerPc = "idle" /\ lastStop = NoStop

InitStore ==
  /\ zoneFile \in InitFiles
  /\ toolZones \in SeqsUpTo(StoreZones, MaxZones)
  /\ savePc = "idle" /\ savePending = <<>> /\ saveRet = "none"
  /\ savePrior = <<>> /\ saveNew = <<>> /\ saveCount = 0
  /\ vmLoad = NoLoad /\ detLoad = NoLoad
  /\ detZones = <<>>
  /\ WorkerIdle /\ ResolveIdle /\ QueryIdle /\ LifeIdle /\ readInFrame = FALSE /\ ToolIdle /\ AskIdle

NextStore ==
  \/ SaveOpen \/ SaveOpenFail \/ SaveWrite \/ SaveClose \/ SaveFail
  \/ ToolLoad \/ VmLoad \/ DetLoad

SpecStore == InitStore /\ [][NextStore]_vars

----------------------------------------------------------------------------
(* Zone resolution on its own: a zone set is saved, loaded and resolved *)

Spans == {<<10, 5>>, <<31, 4>>, <<45, 10>>, <<64, 5>>, <<90, 5>>, <<131, 5>>, <<140, 20>>}

ResolveFrames == {<<100, 100>>, <<200, 100>>, <<100, 200>>}

\* (bbox, frame size) with the bbox inside the frame
BoxesInFrames ==
  {bf \in {<< <<sx[1], sy[1], sx[2], sy[2]>>, fs >> :
              sx \in Spans, sy \in Spans, fs \in ResolveFrames} :
     bf[1][1] + bf[1][3] <= bf[2][1] /\ bf[1][2] + bf[1][4] <= bf[2][2]}

ResolveInputs ==
  {[zones |-> zs, bbox |-> bf[1], frame_size |-> bf[2]] :
     zs \in SeqsUpTo(DrawnZones, MaxZones), bf \in BoxesInFrames}

InitResolve ==
  /\ rIn \in ResolveInputs
  /\ rOut = NoOutput
  /\ zoneFile = File(json_dump(rIn.zones))
  /\ detZones = load_zones(zoneFile, <<>>)
  /\ toolZones = rIn.zones
  /\ savePc = "idle" /\ savePending = <<>> /\ saveRet = "ok"
  /\ savePrior = <<>> /\ saveNew = rIn.zones /\ saveCount = 1
  /\ vmLoad = NoLoad /\ detLoad = NoLoad
  /\ WorkerIdle /\ QueryIdle /\ LifeIdle /\ readInFrame = FALSE /\ ToolIdle /\ AskIdle

\* The strict resolver as detect_objects_in_zones uses it: the centre of the
\* (x1, y1, x2, y2) box through get_zone_for_point.
ResolveStrict ==
  /\ rOut.strict = ""
  /\ LET b == rIn.bbox
     IN  rOut' = [rOut EXCEPT !.done = TRUE,
                    !.strict = get_zone_for_point(detZones,
                                 CenterXyxy2(<<b[1], b[2], b[1] + b[3], b[2] + b[4]>>))]
  /\ UNCHANGED <<storeVars, vmLoad, detZones, detLoad, workerVars, rIn, queryVars, lifeVars, readInFrame, toolVars, askVars>>

\* The lenient resolver: get_location_for_bbox(bbox, frame_size, "zones.json").
ResolveLenient ==
  /\ rOut.lenient = ""
  /\ rOut' = [rOut EXCEPT !.done = TRUE,
                !.lenient = get_location_for_bbox(rIn.bbox, rIn.frame_size, zoneFile)]
  /\ UNCHANGED <<storeVars, vmLoad, detZones, detLoad, workerVars, rIn, queryVars, lifeVars, readInFrame, toolVars, askVars>>

NextResolve == ResolveStrict \/ ResolveLenient

SpecResolve == InitResolve /\ [][NextResolve]_vars

----------------------------------------------------------------------------
(* The ingest pipelines with the zone tool running beside them *)

IngestFiles == {NoFile, File(MalformedText),
                File(json_dump(<<NewZone("desk", <<0, 0, 50, 50>>)>>)),
                File(json_dump(<<NewZone("bed", <<0, 0, 100, 100>>),
                                 NewZone("desk", <<0, 0, 50, 50>>)>>))}

IngestToolZones == {<<>>, <<NewZone("bed", <<50, 50, 50, 50>>)>>}

InitIngest ==
  /\ mode \in {"generic", "zone_only"}
  /\ zoneFile \in IngestFiles
  /\ toolZones \in IngestToolZones
  /\ savePc = "idle" /\ savePending = <<>> /\ saveRet = "none"
  /\ savePrior = <<>> /\ saveNew = <<>> /\ saveCount = 0
  /\ vmLoad = NoLoad /\ detLoad = NoLoad
  /\ detZones = <<>>
  /\ wpc = "off" /\ frame = NoFrame /\ frameZonesEmpty = FALSE
  /\ detections = <<>> /\ idx = 0 /\ log = <<>> /\ framesRead = 0
  /\ ResolveIdle /\ QueryIdle /\ LifeIdle /\ readInFrame = FALSE /\ ToolIdle /\ AskIdle

NextIngest ==
  \/ GenericStart \/ GenericCapture \/ GenericSave
  \/ ZoneStart \/ ZoneCapture \/ ZoneDetectBox \/ ZoneDraw \/ ZoneSave \/ ZoneReload
  \/ SaveOpen \/ SaveWrite \/ SaveClose \/ SaveFail

SpecIngest == InitIngest /\ [][NextIngest]_vars

----------------------------------------------------------------------------
(* The pipelines on frames whose detections need not be well formed *)

\* What the model can return for a box: besides a well-formed box, one with
\* x2 = x1 (no width) and one whose confidence is outside [0, 1].
AnyBoxes == << [class_name |-> "phone", confidence |-> 90,  xyxy |-> <<10, 10, 15, 15>>],
               [class_name |-> "book",  confidence |-> 40,  xyxy |-> <<20, 20, 20, 30>>],
               [class_name |-> "cup",   confidence |-> 150, xyxy |-> <<30, 30, 40, 40>>] >>

AnyFrames ==
  {[w |-> 100, h |-> 100, boxes |-> Pick(AnyBoxes, S, 1)] :
     S \in {T \in SUBSET (1..Len(AnyBoxes)) : Cardinality(T) <= MaxBoxes}}

GenericCaptureAny == GenericCaptureOf(AnyFrames)
ZoneCaptureAny == ZoneCaptureOf(AnyFrames)

FrameFiles == {NoFile, File(json_dump(<<NewZone("desk", <<0, 0, 50, 50>>)>>))}

InitFrames ==
  /\ mode \in {"generic", "zone_only"}
  /\ zoneFile \in FrameFiles
  /\ toolZones = <<>>
  /\ savePc = "idle" /\ savePending = <<>> /\ saveRet = "none"
  /\ savePrior = <<>> /\ saveNew = <<>> /\ saveCount = 0
  /\ vmLoad = NoLoad /\ detLoad = NoLoad
  /\ detZones = <<>>
  /\ wpc = "off" /\ frame = NoFrame /\ frameZonesEmpty = FALSE
  /\ detections = <<>> /\ idx = 0 /\ log = <<>> /\ framesRead = 0
  /\ ResolveIdle /\ QueryIdle /\ LifeIdle /\ readInFrame = FALSE /\ ToolIdle /\ AskIdle

NextFrames ==
  \/ GenericStart \/ GenericCaptureAny \/ GenericSave
  \/ ZoneStart \/ ZoneCaptureAny \/ ZoneDetectBox \/ ZoneDraw \/ ZoneSave

SpecFrames == InitFrames /\ [][NextFrames]_vars

----------------------------------------------------------------------------
(* The detector's lifecycle: start_continuous_detection, stop_detection and  *)
(* the threads running _detection_loop.  ObjectDetector and                 *)
(* ZoneFocusedDetector have the same text here, but for the load_zones()    *)
(* call at the head of ZoneFocusedDetector.start_continuous_detection.      *)
(*                                                                          *)
(* A thread is [pc, left, killed, sawStop]: its place in _detection_loop,   *)
(* the detections of the frame not yet saved, and as history whether an     *)
(* exception took it out of the loop while is_detecting was set, and        *)
(* whether it read is_detecting as False.                                   *)

lifeFrame == <<storeVars, vmLoad, detZones, detLoad, workerVars, resolveVars, queryVars,
               readInFrame, toolVars, askVars>>

NewThread == [pc |-> "open", left |-> 0, killed |-> FALSE, sawStop |-> FALSE]

Alive == {t \in DOMAIN threads : threads[t].pc # "done"}

\* start_continuous_detection: the flag is set, a new Thread is created,
\* assigned to self.detection_thread and started.
StartDetection ==
  /\ callerPc = "idle"
  /\ Len(threads) < MaxStarts
  /\ is_detecting' = TRUE
  /\ threads' = Append(threads, NewThread)
  /\ detection_thread' = Len(threads) + 1
  /\ UNCHANGED <<callerPc, lastStop, lifeFrame>>

\* stop_detection: the flag is cleared; `if self.detection_thread:` the caller
\* goes on to join() that thread, otherwise the call returns.
StopDetection ==
  /\ callerPc = "idle"
  /\ is_detecting' = FALSE
  /\ IF detection_thread = 0
       THEN /\ lastStop' = [returned |-> TRUE, alive |-> Alive]
            /\ UNCHANGED callerPc
       ELSE /\ callerPc' = "joining"
            /\ UNCHANGED lastStop
  /\ UNCHANGED <<detection_thread, threads, lifeFrame>>

\* self.detection_thread.join() returns once that thread has ended, and with
\* it stop_detection.
StopJoin ==
  /\ callerPc = "joining"
  /\ threads[detection_thread].pc = "done"
  /\ callerPc' = "idle"
  /\ lastStop' = [returned |-> TRUE, alive |-> Alive]
  /\ UNCHANGED <<is_detecting, detection_thread, threads, lifeFrame>>

\* cap = cv2.VideoCapture(camera_index), opened.
WorkerOpen(t) ==
  /\ threads[t].pc = "open"
  /\ threads' = [threads EXCEPT ![t].pc = "while"]
  /\ UNCHANGED <<is_detecting, detection_thread, callerPc, lastStop, lifeFrame>>

\* `if not cap.isOpened(): return`
WorkerOpenFail(t) ==
  /\ threads[t].pc = "open"
  /\ threads' = [threads EXCEPT ![t].pc = "done"]
  /\ UNCHANGED <<is_detecting, detection_thread, callerPc, lastStop, lifeFrame>>

\* `while self.is_detecting:`
WorkerWhile(t) ==
  /\ threads[t].pc = "while"
  /\ threads' = IF is_detecting
                  THEN [threads EXCEPT ![t].pc = "read"]
                  ELSE [threads EXCEPT ![t].pc = "finally", ![t].sawStop = TRUE]
  /\ UNCHANGED <<is_detecting, detection_thread, callerPc, lastStop, lifeFrame>>

\* ret, frame = cap.read() with ret true.
WorkerRead(t) ==
  /\ threads[t].pc = "read"
  /\ threads' = [threads EXCEPT ![t].pc = "detect"]
  /\ UNCHANGED <<is_detecting, detection_thread, callerPc, lastStop, lifeFrame>>

\* `if not ret: break`
WorkerReadFail(t) ==
  /\ threads[t].pc = "read"
  /\ threads' = [threads EXCEPT ![t].pc = "finally"]
  /\ UNCHANGED <<is_detecting, detection_thread, callerPc, lastStop, lifeFrame>>

\* detections = self.detect_objects(frame), drawn and shown;
\* `if frame_count % save_interval == 0 and detections`.
WorkerDetect(t) ==
  /\ threads[t].pc = "detect"
  /\ \E n \in 0..MaxBoxes :
       threads' = [threads EXCEPT ![t].pc = IF n = 0 THEN "key" ELSE "save", ![t].left = n]
  /\ UNCHANGED <<is_detecting, detection_thread, callerPc, lastStop, lifeFrame>>

\* The model raises: there is no except clause, `finally` is next.
WorkerDetectFail(t) ==
  /\ threads[t].pc = "detect"
  /\ threads' = [threads EXCEPT ![t].pc = "finally", ![t].killed = is_detecting]
  /\ UNCHANGED <<is_detecting, detection_thread, callerPc, lastStop, lifeFrame>>

\* _save_detections_to_memory, one detection.
WorkerSave(t) ==
  /\ threads[t].pc = "save"
  /\ threads' = [threads EXCEPT ![t].left = @ - 1,
                                ![t].pc = IF threads[t].left = 1 THEN "key" ELSE "save"]
  /\ UNCHANGED <<is_detecting, detection_thread, callerPc, lastStop, lifeFrame>>

\* get_location_for_bbox or add_detection raises (KeyError on a zone without
\* bbox, sqlite3.OperationalError): the rest of the frame is not saved.
WorkerSaveFail(t) ==
  /\ threads[t].pc = "save"
  /\ threads' = [threads EXCEPT ![t].pc = "finally", ![t].killed = is_detecting]
  /\ UNCHANGED <<is_detecting, detection_thread, callerPc, lastStop, lifeFrame>>

\* frame_count += 1; cv2.waitKey(1) returns another key than 'q'.
WorkerKey(t) ==
  /\ threads[t].pc = "key"
  /\ threads' = [threads EXCEPT ![t].pc = "while"]
  /\ UNCHANGED <<is_detecting, detection_thread, callerPc, lastStop, lifeFrame>>

\* `if cv2.waitKey(1) & 0xFF == ord('q'): break`
WorkerQuit(t) ==
  /\ threads[t].pc = "key"
  /\ threads' = [threads EXCEPT ![t].pc = "finally"]
  /\ UNCHANGED <<is_detecting, detection_thread, callerPc, lastStop, lifeFrame>>

\* finally: cap.release(); cv2.destroyAllWindows(); the thread ends.
WorkerFinally(t) ==
  /\ threads[t].pc = "finally"
  /\ threads' = [threads EXCEPT ![t].pc = "done", ![t].left = 0]
  /\ UNCHANGED <<is_detecting, detection_thread, callerPc, lastStop, lifeFrame>>

\* A detector as __init__ leaves it.
InitLife ==
  /\ is_detecting = FALSE /\ detection_thread = 0 /\ threads = <<>>
  /\ callerPc = "idle" /\ lastStop = NoStop
  /\ zoneFile = NoFile /\ toolZones = <<>>
  /\ savePc = "idle" /\ savePending = <<>> /\ saveRet = "none"
  /\ savePrior = <<>> /\ saveNew = <<>> /\ saveCount = 0
  /\ vmLoad = NoLoad /\ detLoad = NoLoad /\ detZones = <<>>
  /\ WorkerIdle /\ ResolveIdle /\ QueryIdle /\ readInFrame = FALSE /\ ToolIdle /\ AskIdle

NextLife ==
  \/ StartDetection \/ StopDetection \/ StopJoin
  \/ \E t \in DOMAIN threads : WorkerOpen(t)
  \/ \E t \in DOMAIN threads : WorkerOpenFail(t)
  \/ \E t \in DOMAIN threads : WorkerWhile(t)
  \/ \E t \in DOMAIN threads : WorkerRead(t)
  \/ \E t \in DOMAIN threads : WorkerReadFail(t)
  \/ \E t \in DOMAIN threads : WorkerDetect(t)
  \/ \E t \in DOMAIN threads : WorkerDetectFail(t)
  \/ \E t \in DOMAIN threads : WorkerSave(t)
  \/ \E t \in DOMAIN threads : WorkerSaveFail(t)
  \/ \E t \in DOMAIN threads : WorkerKey(t)
  \/ \E t \in DOMAIN threads : WorkerQuit(t)
  \/ \E t \in DOMAIN threads : WorkerFinally(t)

SpecLife == InitLife /\ [][NextLife]_vars

----------------------------------------------------------------------------
(* Detection log: the queries of VisualMemory *)

\* SQLite's BINARY collation on two timestamp texts: memcmp, and of two texts
\* one of which begins the other, the shorter is the smaller.
RECURSIVE TextLess(_, _)
TextLess(a, b) ==
  IF b = <<>> THEN FALSE
  ELSE IF a = <<>> THEN TRUE
  ELSE IF Head(a) # Head(b) THEN Head(a) < Head(b)
  ELSE TextLess(Tail(a), Tail(b))

\* The letters of these runs that have two cases.
UpperCase == <<"D", "E", "S", "K", "T", "V">>
LowerCase == <<"d", "e", "s", "k", "t", "v">>

\* sqlite3UpperToLower: ASCII upper-case letters fold to lower case.
AsciiLower(c) ==
  IF \E i \in DOMAIN UpperCase : UpperCase[i] = c
    THEN LowerCase[CHOOSE i \in DOMAIN UpperCase : UpperCase[i] = c]
    ELSE c

RECURSIVE like_case_sensitive(_, _)
like_case_sensitive(pattern, text) ==
  IF pattern = <<>> THEN text = <<>>
  ELSE IF Head(pattern) = "%"
    THEN \/ like_case_sensitive(Tail(pattern), text)
         \/ text # <<>> /\ like_case_sensitive(pattern, Tail(text))
  ELSE /\ text # <<>>
       /\ Head(pattern) = "_" \/ Head(pattern) = Head(text)
       /\ like_case_sensitive(Tail(pattern), Tail(text))

\* SQLite's LIKE operator as `location_description LIKE ?` uses it (no ESCAPE,
\* case_sensitive_like off): % matches any run of characters, _ any one
\* character, every other character itself with ASCII case folded.
RECURSIVE like(_, _)
like(pattern, text) ==
  IF pattern = <<>> THEN text = <<>>
  ELSE IF Head(pattern) = "%"
    THEN \/ like(Tail(pattern), text)
         \/ text # <<>> /\ like(pattern, Tail(text))
  ELSE /\ text # <<>>
       /\ Head(pattern) = "_" \/ AsciiLower(Head(pattern)) = AsciiLower(Head(text))
       /\ like(Tail(pattern), Tail(text))

\* SELECT * FROM object_detections: the rows of the table.
SelectAll(rows) == {rows[i] : i \in DOMAIN rows}

\* ORDER BY timestamp DESC.  SQL leaves the order of rows with equal timestamps
\* open; SQLite's sorter keeps them in the order of the scan, which is by rowid.
ComesFirst(a, b) ==
  \/ TextLess(b.timestamp, a.timestamp)
  \/ a.timestamp = b.timestamp /\ a.id < b.id

RECURSIVE OrderByTimestampDesc(_)
OrderByTimestampDesc(S) ==
  IF S = {} THEN <<>>
  ELSE LET first == CHOOSE r \in S : \A q \in S \ {r} : ComesFirst(r, q)
       IN  <<first>> \o OrderByTimestampDesc(S \ {first})

\* LIMIT ?
Limit(s, limit) == SubSeq(s, 1, IF limit < Len(s) THEN limit ELSE Len(s))

get_object_history_fold_case(rows, object_name, limit) ==
  Limit(OrderByTimestampDesc(
          {r \in SelectAll(rows) :
             [i \in DOMAIN r.object_name |-> AsciiLower(r.object_name[i])]
               = [i \in DOMAIN object_name |-> AsciiLower(object_name[i])]}),
        limit)

\* VisualMemory.get_object_history: WHERE object_name = ? ORDER BY timestamp
\* DESC LIMIT ?.
get_object_history(rows, object_name, limit) ==
  Limit(OrderByTimestampDesc({r \in SelectAll(rows) : r.object_name = object_name}), limit)

get_recent_detections_from_cutoff(rows, clock, hours, limit) ==
  Limit(OrderByTimestampDesc(
          {r \in SelectAll(rows) : ~TextLess(r.timestamp, isoformat(clock - hours))}),
        limit)

\* VisualMemory.get_recent_detections: cutoff_time = (now - timedelta(hours))
\* .isoformat(); WHERE timestamp > ? ORDER BY timestamp DESC LIMIT ?.  hours is
\* counted in the clock's unit.
get_recent_detections(rows, clock, hours, limit) ==
  Limit(OrderByTimestampDesc(
          {r \in SelectAll(rows) : TextLess(isoformat(clock - hours), r.timestamp)}),
        limit)

\* VisualMemory.search_objects_by_location: WHERE location_description LIKE
\* f'%{location_keyword}%' ORDER BY timestamp DESC.
search_objects_by_location(rows, location_keyword) ==
  OrderByTimestampDesc(
    {r \in SelectAll(rows) :
       like(<<"%">> \o location_keyword \o <<"%">>, r.location_description)})

\* VisualMemory.get_all_objects: SELECT DISTINCT object_name, no ORDER BY.
\* SQLite scans the table in rowid order and delivers a name when it first
\* meets it.
RECURSIVE get_all_objects(_)
get_all_objects(rows) ==
  IF rows = <<>> THEN <<>>
  ELSE LET before == get_all_objects(SubSeq(rows, 1, Len(rows) - 1))
           name   == rows[Len(rows)].object_name
       IN  IF \E i \in DOMAIN before : before[i] = name THEN before
           ELSE Append(before, name)

\* VisualMemory.add_location: INSERT OR REPLACE on the UNIQUE name.
add_location(table, name, description) ==
  SelectSeq(table, LAMBDA r : r.name # name)
    \o <<[name |-> name, description |-> description]>>

\* What add_detection is called with in these runs: object names and location
\* descriptions that differ in case or in one letter.
LogInputs ==
  {[object_name |-> <<"t", "v">>,      location_description |-> <<"d", "e", "s", "k">>],
   [object_name |-> <<"T", "V">>,      location_description |-> <<"D", "e", "s", "k">>],
   [object_name |-> <<"c", "u", "p">>, location_description |-> <<"d", "i", "s", "k">>]}

HistoryNames == {<<"t", "v">>, <<"T", "V">>}
Keywords == {<<"e", "s">>, <<"D", "e">>, <<"d", "_", "s">>, <<"d", "%", "k">>}
Limits == {1, 2}
Windows == {1, 2}

\* A VisualMemory over a fresh database file; init_database has run.
InitLog ==
  /\ log = <<>> /\ now = 0 /\ locations = <<>> /\ qOut = NoQuery
  /\ zoneFile = NoFile /\ toolZones = <<>>
  /\ savePc = "idle" /\ savePending = <<>> /\ saveRet = "none"
  /\ savePrior = <<>> /\ saveNew = <<>> /\ saveCount = 0
  /\ vmLoad = NoLoad /\ detLoad = NoLoad /\ detZones = <<>>
  /\ mode = "generic" /\ wpc = "off" /\ frame = NoFrame /\ frameZonesEmpty = FALSE
  /\ detections = <<>> /\ idx = 0 /\ framesRead = 0
  /\ ResolveIdle /\ LifeIdle /\ readInFrame = FALSE /\ ToolIdle /\ AskIdle

logFrame == <<storeVars, vmLoad, detZones, detLoad, mode, wpc, frame, frameZonesEmpty,
              detections, idx, framesRead, resolveVars, lifeVars, readInFrame, toolVars, askVars>>

\* The caller makes one call at a time: qOut holds the call and what it
\* returned until the caller has taken the result (Return).

\* Time passes; datetime.now() is the local wall clock, which also steps back
\* (end of daylight saving time, a clock correction).
Tick ==
  /\ qOut = NoQuery
  /\ now < MaxTick
  /\ now' = now + 1
  /\ UNCHANGED qOut
  /\ UNCHANGED <<log, locations, logFrame>>

ClockBack ==
  /\ qOut = NoQuery
  /\ now > 0
  /\ now' = now - 1
  /\ UNCHANGED qOut
  /\ UNCHANGED <<log, locations, logFrame>>

AddDetection ==
  /\ qOut = NoQuery
  /\ Len(log) < MaxLog
  /\ \E in \in LogInputs :
       log' = add_detection(log, now, in.object_name, 90, PyTuple(<<10, 10, 5, 5>>),
                            <<100, 100>>, in.location_description, [mode |-> "api"])
  /\ qOut' = [op |-> "add_detection"]
  /\ UNCHANGED <<now, locations, logFrame>>

GetObjectHistory ==
  /\ qOut = NoQuery
  /\ \E object_name \in HistoryNames, limit \in Limits :
       qOut' = [op |-> "get_object_history", object_name |-> object_name,
                limit |-> limit, rows |-> get_object_history(log, object_name, limit)]
  /\ UNCHANGED <<log, now, locations, logFrame>>

GetRecentDetections ==
  /\ qOut = NoQuery
  /\ \E hours \in Windows, limit \in Limits :
       qOut' = [op |-> "get_recent_detections", hours |-> hours, limit |-> limit,
                at |-> now, rows |-> get_recent_detections(log, now, hours, limit)]
  /\ UNCHANGED <<log, now, locations, logFrame>>

SearchObjectsByLocation ==
  /\ qOut = NoQuery
  /\ \E location_keyword \in Keywords :
       qOut' = [op |-> "search_objects_by_location",
                location_keyword |-> location_keyword,
                rows |-> search_objects_by_location(log, location_keyword)]
  /\ UNCHANGED <<log, now, locations, logFrame>>

GetAllObjects ==
  /\ qOut = NoQuery
  /\ qOut' = [op |-> "get_all_objects", rows |-> get_all_objects(log)]
  /\ UNCHANGED <<log, now, locations, logFrame>>

AddLocation ==
  /\ qOut = NoQuery
  /\ locations' = add_location(locations, "desk", "where the desk is")
  /\ qOut' = [op |-> "add_location"]
  /\ UNCHANGED <<log, now, logFrame>>

\* init_database on the existing file: CREATE TABLE IF NOT EXISTS, twice.
InitDatabase ==
  /\ qOut = NoQuery
  /\ qOut' = [op |-> "init_database"]
  /\ UNCHANGED <<log, now, locations, logFrame>>

\* The caller takes the result of its call.
Return ==
  /\ qOut # NoQuery
  /\ qOut' = NoQuery
  /\ UNCHANGED <<log, now, locations, logFrame>>

NextLog ==
  \/ Tick \/ ClockBack \/ AddDetection \/ GetObjectHistory \/ GetRecentDetections
  \/ SearchObjectsByLocation \/ GetAllObjects \/ AddLocation \/ InitDatabase
  \/ Return

SpecLog == InitLog /\ [][NextLog]_vars

----------------------------------------------------------------------------
(* Reference notions the properties are stated with *)

\* The closed rectangle of an (x, y, w, h) bbox holds the (doubled) point.
InRect(p2, rect) ==
  /\ p2[1] \in (2 * rect[1])..(2 * (rect[1] + rect[3]))
  /\ p2[2] \in (2 * rect[2])..(2 * (rect[2] + rect[4]))

Hits(p2, zs) == {i \in 1..Len(zs) : InRect(p2, zs[i].bbox.v)}

FirstHit(p2, zs) == CHOOSE i \in Hits(p2, zs) : \A j \in Hits(p2, zs) : i <= j

ZoneNamesOf(zs) == {zs[i].name : i \in 1..Len(zs)}

GridLabels ==
  << <<"top-left area", "top-center area", "top-right area">>,
     <<"middle-left area", "middle-center area", "middle-right area">>,
     <<"bottom-left area", "bottom-center area", "bottom-right area">> >>

\* Index (0, 1, 2) of the cell of a grid with boundaries at 1/3 and 2/3 of size.
CellThirds(c2, size) == Cardinality({t \in {1, 2} : 3 * c2 >= 2 * t * size})

\* Index of the cell of a grid with boundaries at 0.33 and 0.67 of size.
Cell33(c2, size) == Cardinality({t \in {33, 67} : 100 * c2 >= 2 * t * size})

\* resolve_bbox(bbox, (W, H), zones): the first zone holding the centre,
\* otherwise the generic area of the centre in a frame W wide and H high.
ResolveRef(bbox, size, zs) ==
  IF Hits(Center2(bbox), zs) # {}
    THEN zs[FirstHit(Center2(bbox), zs)].name
    ELSE generic_area(Center2(bbox), size)

----------------------------------------------------------------------------
(* C1 - C4: Zone Store (SpecStore) *)

\* C1: a load that runs while save_zones is writing zones.json returns the
\* complete prior zone set or the complete new one, never an empty or
\* intermediate set (both readers: load_custom_zones and load_zones).
C1_LoadSeesPriorOrNew ==
  /\ (vmLoad.done /\ vmLoad.during) =>
        Entries(vmLoad.result) \in {Entries(vmLoad.prior), Entries(vmLoad.new)}
  /\ (detLoad.done /\ detLoad.during) =>
        Entries(detLoad.result) \in {Entries(detLoad.prior), Entries(detLoad.new)}

\* C2: when save_zones fails after it has started writing, it returns False
\* and a load then returns the zone set persisted before the save began.
C2_FailedSaveKeepsPrior ==
  (savePc = "idle" /\ saveRet = "failed_write") =>
     Entries(load_custom_zones(zoneFile)) = Entries(savePrior)

\* C3: after a successful save_zones(Z) and no later save, a load (by
\* load_custom_zones, by the detector's or by the tool's load_zones) yields the
\* (name, bbox) entries of Z in Z's order.
C3_RoundTrip ==
  /\ (vmLoad.done /\ vmLoad.ret = "ok") => Entries(vmLoad.result) = Entries(vmLoad.new)
  /\ (detLoad.done /\ detLoad.ret = "ok") => Entries(detLoad.result) = Entries(detLoad.new)
  /\ (savePc = "idle" /\ saveRet = "ok") =>
        Entries(load_zones(zoneFile, toolZones)) = Entries(saveNew)

\* C3 witness: a two-zone set with distinct entries was saved and then loaded;
\* what was loaded holds lists where the tool held tuples.
C3_Witness ==
  /\ vmLoad.done /\ vmLoad.ret = "ok" /\ ~vmLoad.during
  /\ Len(vmLoad.new) = 2 /\ vmLoad.new[1] # vmLoad.new[2]
  /\ Entries(vmLoad.result) = Entries(vmLoad.new)
  /\ vmLoad.result # vmLoad.new

\* C4: a load of an absent, corrupt or malformed zones.json yields the empty
\* zone set: load_custom_zones returns [], and the detector holds no zones
\* after load_zones.
C4_LoadFailsSoft ==
  /\ (vmLoad.done /\ vmLoad.kind # "valid") => vmLoad.result = <<>>
  /\ (detLoad.done /\ detLoad.kind # "valid") => detLoad.result = <<>>

----------------------------------------------------------------------------
(* C5, C6: Zone Resolver (SpecResolve) *)

\* C5: both resolvers return the name of the first zone, in stored order, whose
\* closed rectangle holds the centre.
C5_FirstMatchInclusive ==
  LET p2 == Center2(rIn.bbox)
  IN  Hits(p2, rIn.zones) # {} =>
        /\ rOut.strict # "" => rOut.strict = rIn.zones[FirstHit(p2, rIn.zones)].name
        /\ rOut.lenient # "" => rOut.lenient = rIn.zones[FirstHit(p2, rIn.zones)].name

\* C5 witness: two zones of different names both hold the centre, which lies on
\* the right and bottom edge of the first; both resolvers answered the first.
C5_Witness ==
  LET p2 == Center2(rIn.bbox)
  IN  /\ Len(rIn.zones) = 2 /\ Hits(p2, rIn.zones) = {1, 2}
      /\ rIn.zones[1].name # rIn.zones[2].name
      /\ p2[1] = 2 * (rIn.zones[1].bbox.v[1] + rIn.zones[1].bbox.v[3])
      /\ p2[2] = 2 * (rIn.zones[1].bbox.v[2] + rIn.zones[1].bbox.v[4])
      /\ rOut.strict = rIn.zones[1].name
      /\ rOut.lenient = rIn.zones[1].name

\* C6 (as claimed): for a centre outside all zones the lenient resolver returns
\* the label of the 3x3 grid with boundaries at exactly 1/3 and 2/3 of the
\* frame width and height.
C6_GridThirds ==
  LET p2 == Center2(rIn.bbox)
  IN  (rOut.lenient # "" /\ Hits(p2, rIn.zones) = {}) =>
        /\ rOut.lenient \in QuadrantLabels
        /\ rOut.lenient = GridLabels[CellThirds(p2[2], rIn.frame_size[2]) + 1]
                                    [CellThirds(p2[1], rIn.frame_size[1]) + 1]

\* C6 (amended): for a centre outside all zones the lenient resolver returns
\* one of the 9 labels, that of the 3x3 grid with boundaries at 0.33 and 0.67
\* of the width (horizontal) and height (vertical) given as frame_size, a
\* boundary belonging to the cell on its right / below it.
C6_Grid33_67 ==
  LET p2 == Center2(rIn.bbox)
  IN  (rOut.lenient # "" /\ Hits(p2, rIn.zones) = {}) =>
        /\ rOut.lenient \in QuadrantLabels
        /\ rOut.lenient = GridLabels[Cell33(p2[2], rIn.frame_size[2]) + 1]
                                    [Cell33(p2[1], rIn.frame_size[1]) + 1]

\* C6 witness: zones are defined, the centre is outside them, sits exactly on
\* the 0.33 boundary of a frame wider than high, and got a label.
C6_Witness ==
  LET p2 == Center2(rIn.bbox)
  IN  /\ rIn.zones # <<>> /\ Hits(p2, rIn.zones) = {}
      /\ rIn.frame_size[1] > rIn.frame_size[2]
      /\ 100 * p2[2] = 2 * 33 * rIn.frame_size[2]
      /\ rOut.lenient \in QuadrantLabels

----------------------------------------------------------------------------
(* C7 - C10: ingest pipelines (SpecIngest) *)

\* C7: every fact the generic pipeline wrote for a frame W wide and H high has
\* location_description = resolve_bbox(bbox, (W, H), zones then in the file).
C7_GenericResolvesInFrameWH ==
  \A i \in 1..Len(log) :
    (log[i].hist.mode = "generic" /\ WellFormed(log[i].hist.zones)) =>
       log[i].location_description =
         ResolveRef(log[i].bbox.v, <<log[i].hist.w, log[i].hist.h>>, log[i].hist.zones)

\* C8: in zone-only mode with zones loaded, every fact is for a detection whose
\* centre lies in some zone and carries the name of the first such zone, never
\* "outside_zones".
C8_ZoneOnlyKeepsInZone ==
  \A i \in 1..Len(log) :
    (log[i].hist.mode = "zone_only" /\ log[i].hist.path = "zones") =>
       /\ log[i].location_description # "outside_zones"
       /\ Hits(Center2(log[i].bbox.v), log[i].hist.zones) # {}
       /\ log[i].location_description =
            log[i].hist.zones[FirstHit(Center2(log[i].bbox.v), log[i].hist.zones)].name

\* C8 witness: a frame with a box inside a zone and a box outside all zones
\* was processed to its end; only the first was inserted.
C8_Witness ==
  /\ mode = "zone_only" /\ wpc = "loop" /\ framesRead = 1 /\ ~frameZonesEmpty
  /\ Len(frame.boxes) = 2 /\ Len(log) = 1
  /\ log[1].object_name = "phone" /\ log[1].location_description = "desk"
  /\ frame.boxes[2].class_name = "book"
  /\ Hits(CenterXyxy2(frame.boxes[2].xyxy), detZones) = {}

\* C9: in zone-only mode with an empty zone set no detection is dropped and
\* each is written with the generic-area label of its bbox in the frame.
C9_EmptyZonesUseGenericArea ==
  /\ (mode = "zone_only" /\ frameZonesEmpty /\ wpc = "save") =>
        Len(detections) = Len(frame.boxes)
  /\ \A i \in 1..Len(log) :
       log[i].hist.path = "full_frame" =>
          log[i].location_description =
            generic_area(Center2(log[i].bbox.v), <<log[i].hist.w, log[i].hist.h>>)

\* C10: every fact's location_description is the name of a zone of the zone
\* set it was resolved against, one of the 9 quadrant labels, or "outside_zones".
C10_LocationDomain ==
  \A i \in 1..Len(log) :
    log[i].location_description \in
      ZoneNamesOf(log[i].hist.zones) \cup QuadrantLabels \cup {"outside_zones"}

----------------------------------------------------------------------------
(* Detection log: reference notions *)

\* The instant a timestamp text denotes, in half seconds.
fromisoformat(text) == IF Len(text) = 1 THEN 2 * text[1] ELSE 2 * text[1] + 1

RowsOf(seq) == {seq[i] : i \in 1..Len(seq)}

NoRowTwice(seq) == \A i, j \in 1..Len(seq) : i # j => seq[i] # seq[j]

NewestFirst(seq) ==
  \A i \in 1..(Len(seq) - 1) :
    fromisoformat(seq[i].timestamp) >= fromisoformat(seq[i + 1].timestamp)

StrictlyNewestFirst(seq) ==
  \A i \in 1..(Len(seq) - 1) :
    fromisoformat(seq[i].timestamp) > fromisoformat(seq[i + 1].timestamp)

\* seq holds the `limit` newest rows of S, or all of S when S has fewer.
NewestOf(seq, S, limit) ==
  /\ RowsOf(seq) \subseteq S
  /\ NoRowTwice(seq)
  /\ Len(seq) = IF Cardinality(S) < limit THEN Cardinality(S) ELSE limit
  /\ \A r \in S \ RowsOf(seq) : \A i \in 1..Len(seq) :
       fromisoformat(r.timestamp) <= fromisoformat(seq[i].timestamp)

\* k occurs in text as it stands.
ContainsLiteral(k, text) ==
  \E i \in 0..(Len(text) - Len(k)) : SubSeq(text, i + 1, i + Len(k)) = k

\* The places in text (0 = before its first character) at which a match of
\* the first i pattern characters can end: % ends anywhere at or after a place
\* reached before it, _ one character further, any other pattern character
\* one character further when that character is it in either case.
RECURSIVE LikeEnds(_, _, _)
LikeEnds(pattern, text, i) ==
  IF i = 0 THEN {0}
  ELSE LET before == LikeEnds(pattern, text, i - 1)
       IN  IF pattern[i] = "%"
             THEN {q \in 0..Len(text) : \E e \in before : e <= q}
             ELSE {e + 1 : e \in {f \in before :
                                    /\ f < Len(text)
                                    /\ \/ pattern[i] = "_"
                                       \/ AsciiLower(pattern[i]) = AsciiLower(text[f + 1])}}

\* text matches pattern under LIKE.
LikeRef(pattern, text) == Len(text) \in LikeEnds(pattern, text, Len(pattern))

\* The characters of the object names, in code point order.
CodeOrder == <<"T", "V", "c", "p", "t", "u", "v">>
CodeOf(c) == CHOOSE i \in DOMAIN CodeOrder : CodeOrder[i] = c

RECURSIVE LexLess(_, _)
LexLess(a, b) ==
  IF b = <<>> THEN FALSE
  ELSE IF a = <<>> THEN TRUE
  ELSE IF Head(a) # Head(b) THEN CodeOf(Head(a)) < CodeOf(Head(b))
  ELSE LexLess(Tail(a), Tail(b))

----------------------------------------------------------------------------
(* Detection log: properties *)

\* C11: the detection log is append-only: no VisualMemory operation removes or
\* changes a row, add_detection adds exactly one row whose id is greater than
\* every id present, and no other operation adds one.
C11_LogAppendOnly ==
  [][/\ Len(log') >= Len(log)
     /\ SubSeq(log', 1, Len(log)) = log
     /\ IF qOut'.op = "add_detection"
          THEN /\ Len(log') = Len(log) + 1
               /\ \A i \in 1..Len(log) : log'[Len(log')].id > log[i].id
          ELSE log' = log]_vars

\* C11 witness: rows are in the log and a query, add_location and
\* init_database have run over them.
C11_Witness ==
  /\ Len(log) = MaxLog /\ locations # <<>>
  /\ qOut.op = "init_database"

\* C12 as stated: get_recent_detections returns at most limit rows, each newer
\* than now - hours, the limit newest of those, in strictly descending
\* timestamp order.
C12_RecentStrictlyDescending ==
  qOut.op = "get_recent_detections" =>
    /\ NewestOf(qOut.rows,
                {r \in RowsOf(log) : fromisoformat(r.timestamp) > qOut.at - qOut.hours},
                qOut.limit)
    /\ StrictlyNewestFirst(qOut.rows)

\* C12 amended: get_recent_detections returns at most limit rows, each newer
\* than now - hours, the limit newest of those, no row before a newer one.
C12_RecentNewestFirst ==
  qOut.op = "get_recent_detections" =>
    /\ Len(qOut.rows) <= qOut.limit
    /\ NewestOf(qOut.rows,
                {r \in RowsOf(log) : fromisoformat(r.timestamp) > qOut.at - qOut.hours},
                qOut.limit)
    /\ NewestFirst(qOut.rows)

\* C12 witness: of three rows one is as old as the cutoff and two are inside
\* the window with equal timestamps; limit 1 returned one of the two.
C12_Witness ==
  /\ qOut.op = "get_recent_detections" /\ qOut.limit = 1 /\ Len(qOut.rows) = 1
  /\ Len(log) = 3
  /\ \E i \in 1..3 : fromisoformat(log[i].timestamp) = qOut.at - qOut.hours
  /\ Cardinality({i \in 1..3 : log[i].timestamp = qOut.rows[1].timestamp}) = 2

\* C13: get_object_history returns only rows whose object_name is exactly the
\* name asked for, most recent first, the limit newest of them.
C13_HistoryExactName ==
  qOut.op = "get_object_history" =>
    /\ Len(qOut.rows) <= qOut.limit
    /\ NewestOf(qOut.rows, {r \in RowsOf(log) : r.object_name = qOut.object_name},
                qOut.limit)
    /\ NewestFirst(qOut.rows)

\* C13 witness: the log holds the name in another case and two rows of the name
\* asked for, the older inserted last; limit 1 returned the newer.
C13_Witness ==
  /\ qOut.op = "get_object_history" /\ qOut.object_name = <<"t", "v">>
  /\ qOut.limit = 1 /\ Len(qOut.rows) = 1
  /\ Len(log) = 3
  /\ log[1].object_name = <<"T", "V">>
  /\ log[2].object_name = <<"t", "v">> /\ log[3].object_name = <<"t", "v">>
  /\ fromisoformat(log[2].timestamp) > fromisoformat(log[3].timestamp)
  /\ qOut.rows[1] = log[2]

\* C14 as stated: search_objects_by_location returns exactly the rows whose
\* location_description contains the keyword as a literal, case-sensitive
\* substring, most recent first.
C14_SearchLiteralSubstring ==
  qOut.op = "search_objects_by_location" =>
    /\ RowsOf(qOut.rows) =
         {r \in RowsOf(log) : ContainsLiteral(qOut.location_keyword, r.location_description)}
    /\ NoRowTwice(qOut.rows)
    /\ NewestFirst(qOut.rows)

\* C14 amended: search_objects_by_location returns exactly the rows whose
\* location_description matches the LIKE pattern %keyword%, in which letters
\* match in either case, % in the keyword matches any run of characters and _
\* any one character; most recent first, without limit.
C14_SearchLikePattern ==
  qOut.op = "search_objects_by_location" =>
    /\ RowsOf(qOut.rows) =
         {r \in RowsOf(log) :
            LikeRef(<<"%">> \o qOut.location_keyword \o <<"%">>, r.location_description)}
    /\ NoRowTwice(qOut.rows)
    /\ NewestFirst(qOut.rows)

\* C14 witness: the keyword "De" returned a row located at "desk" and one at
\* "Desk" and left out the row at "disk".
C14_Witness ==
  /\ qOut.op = "search_objects_by_location" /\ qOut.location_keyword = <<"D", "e">>
  /\ Len(log) = 3 /\ Len(qOut.rows) = 2
  /\ \E i \in 1..2 : qOut.rows[i].location_description = <<"d", "e", "s", "k">>
  /\ \E i \in 1..2 : qOut.rows[i].location_description = <<"D", "e", "s", "k">>

\* C15: get_all_objects returns each object name of the log once, no other
\* name, in lexicographically sorted order.
C15_DistinctNamesSorted ==
  qOut.op = "get_all_objects" =>
    /\ RowsOf(qOut.rows) = {log[i].object_name : i \in 1..Len(log)}
    /\ \A i \in 1..(Len(qOut.rows) - 1) : LexLess(qOut.rows[i], qOut.rows[i + 1])

----------------------------------------------------------------------------
(* Ingestion: malformed detections *)

\* A detection as the spec admits it: confidence in [0, 1], a bbox with width
\* and height.
WellFormedDetection(d) ==
  /\ d.confidence \in 0..100
  /\ d.bbox.v[3] > 0 /\ d.bbox.v[4] > 0

Persisted(d) == [object_name |-> d.class_name, confidence |-> d.confidence, bbox |-> d.bbox]

\* What the log holds of frame k, in insertion order.
FactsOfFrame(k) ==
  LET rows == SelectSeq(log, LAMBDA r : r.hist.frame = k)
  IN  [i \in 1..Len(rows) |->
         [object_name |-> rows[i].object_name, confidence |-> rows[i].confidence,
          bbox |-> rows[i].bbox]]

\* C16: a malformed detection (confidence outside [0, 1], degenerate bbox) is
\* skipped on its own: when the worker is through with a frame, the log holds
\* of that frame the well-formed retained detections, all of them and no other.
C16_MalformedSkipped ==
  (wpc = "loop" /\ framesRead >= 1) =>
    LET kept == SelectSeq(detections, WellFormedDetection)
    IN  FactsOfFrame(framesRead) = [i \in 1..Len(kept) |-> Persisted(kept[i])]

----------------------------------------------------------------------------
(* The detector's lifecycle: properties *)

\* C17: a detector or storage failure while a frame is processed does not end
\* the worker: no exception takes a thread out of its loop while detection is
\* switched on.
C17_FailureSparesWorker ==
  \A t \in DOMAIN threads : ~threads[t].killed

\* C18: a thread that has read the cleared flag starts no further frame, a
\* thread ends with nothing of its frame left to save unless an exception
\* took it out, and stop_detection returns only when every thread the
\* detector started has ended.
C18_StopJoinsEveryWorker ==
  /\ \A t \in DOMAIN threads :
       /\ threads[t].sawStop => threads[t].pc \in {"finally", "done"}
       /\ (threads[t].sawStop /\ ~threads[t].killed) => threads[t].left = 0
  /\ lastStop.returned => lastStop.alive = {}

\* C19: at most one worker thread is alive and at most one frame is being
\* ingested at any time.
C19_SingleWorker ==
  /\ Cardinality(Alive) <= 1
  /\ Cardinality({t \in DOMAIN threads : threads[t].pc \in {"detect", "save"}}) <= 1

----------------------------------------------------------------------------
(* Ingestion: reads of the Zone Store *)

\* C20: a pipeline reads zones.json when it starts and when it is told that
\* the zones changed; processing a frame or a detection reads no zone file,
\* in generic mode as in zone-only mode.
C20_NoZoneReadPerFrame == ~readInFrame

----------------------------------------------------------------------------
(* ZoneDefinitionTool.run: the window's mouse and key events (SpecTool) *)

\* Where the mouse goes down, moves and comes up in these runs.
Points == {<<0, 0>>, <<10, 10>>, <<20, 20>>}

\* What the operator types at "Enter zone name".
Typed == {"", " bed", "bed"}

\* str.strip() on the typed texts.
strip(text) == IF text = " bed" THEN "bed" ELSE text

min(a, b) == IF a <= b THEN a ELSE b
max(a, b) == IF a >= b THEN a ELSE b

\* run up to the loop: load_zones() (the zones are kept when there is no file
\* or it cannot be parsed), the camera opens, the mouse callback is set.
RunStart ==
  /\ toolPc \in {"off", "done"} /\ savePc = "idle"
  /\ toolZones' = load_zones(zoneFile, toolZones)
  /\ toolPc' = "loop"
  /\ savedInRun' = FALSE
  /\ UNCHANGED <<zoneFile, savePc, savePending, saveRet, savePrior, saveNew, saveCount,
                 runRet, drawing, start_point, end_point, current_zone, markerFile,
                 vmLoad, detZones, detLoad, workerVars, resolveVars, queryVars, lifeVars,
                 readInFrame, askVars>>

\* `if not cap.isOpened(): return False` (lines 134-136), after load_zones().
RunOpenFail ==
  /\ toolPc \in {"off", "done"} /\ savePc = "idle"
  /\ toolZones' = load_zones(zoneFile, toolZones)
  /\ toolPc' = "done"
  /\ runRet' = "False"
  /\ savedInRun' = FALSE
  /\ UNCHANGED <<zoneFile, savePc, savePending, saveRet, savePrior, saveNew, saveCount,
                 drawing, start_point, end_point, current_zone, markerFile,
                 vmLoad, detZones, detLoad, workerVars, resolveVars, queryVars, lifeVars,
                 readInFrame, askVars>>

\* What every event of the window leaves alone.
toolFrame == <<zoneFile, savePc, savePending, saveRet, savePrior, saveNew, saveCount,
               savedInRun, markerFile, vmLoad, detZones, detLoad, workerVars, resolveVars,
               queryVars, lifeVars, readInFrame, askVars>>

\* mouse_callback, EVENT_LBUTTONDOWN (lines 20-23).
MouseDown ==
  /\ toolPc = "loop" /\ savePc = "idle"
  /\ \E p \in Points :
       /\ drawing' = TRUE
       /\ start_point' = p
       /\ current_zone' = <<p, p>>
  /\ UNCHANGED <<toolZones, toolPc, runRet, end_point, toolFrame>>

\* mouse_callback, EVENT_MOUSEMOVE while drawing (lines 25-27).
MouseMove ==
  /\ toolPc = "loop" /\ savePc = "idle"
  /\ drawing
  /\ \E p \in Points : current_zone' = <<current_zone[1], p>>
  /\ UNCHANGED <<toolZones, toolPc, runRet, drawing, start_point, end_point, toolFrame>>

\* x_max - x_min > 10 and y_max - y_min > 10 (line 43)
has_area(p, q) ==
  /\ max(p[1], q[1]) - min(p[1], q[1]) > 10
  /\ max(p[2], q[2]) - min(p[2], q[2]) > 10

\* mouse_callback, EVENT_LBUTTONUP while drawing, up to input() (lines 29-45):
\* drawing and end_point are set; a rectangle of more than 10 pixels each way
\* leaves the callback waiting for the name, on the thread of the loop, and a
\* smaller one is dropped (lines 57-59).
MouseUp ==
  /\ toolPc = "loop" /\ savePc = "idle"
  /\ drawing
  /\ drawing' = FALSE
  /\ \E p \in Points :
       IF has_area(start_point, p)
         THEN /\ end_point' = p
              /\ toolPc' = "input"
              /\ UNCHANGED <<start_point, current_zone>>
         ELSE /\ end_point' = <<>>
              /\ start_point' = <<>>
              /\ current_zone' = <<>>
              /\ UNCHANGED toolPc
  /\ UNCHANGED <<toolZones, runRet, toolFrame>>

\* input() returns (lines 45-59): with a name left after strip() the zone is
\* appended; current_zone, start_point and end_point are reset.
NameTyped ==
  /\ toolPc = "input"
  /\ \E typed \in Typed :
       LET x_min == min(start_point[1], end_point[1])
           x_max == max(start_point[1], end_point[1])
           y_min == min(start_point[2], end_point[2])
           y_max == max(start_point[2], end_point[2])
           zone_name == strip(typed)
       IN  toolZones' =
             IF zone_name # ""
               THEN Append(toolZones,
                           NewZone(zone_name, <<x_min, y_min, x_max - x_min, y_max - y_min>>))
               ELSE toolZones
  /\ Len(toolZones') <= MaxZones
  /\ toolPc' = "loop"
  /\ start_point' = <<>>
  /\ end_point' = <<>>
  /\ current_zone' = <<>>
  /\ UNCHANGED <<runRet, drawing, toolFrame>>

\* input() raises EOFError (standard input closed): the callback ends at line
\* 45 and the tool keeps start_point, end_point and current_zone; the window
\* reports the callback's exception and the loop goes on.
NameEOF ==
  /\ toolPc = "input"
  /\ toolPc' = "loop"
  /\ UNCHANGED <<toolZones, runRet, drawing, start_point, end_point, current_zone, toolFrame>>

\* 'Q' (lines 166-168): break; run returns len(self.zones) > 0.
KeyQ ==
  /\ toolPc = "loop" /\ savePc = "idle"
  /\ toolPc' = "done"
  /\ runRet' = IF Len(toolZones) > 0 THEN "True" ELSE "False"
  /\ UNCHANGED <<toolZones, drawing, start_point, end_point, current_zone, toolFrame>>

\* cap.read() fails (lines 146-149): break; run returns len(self.zones) > 0.
RunReadFail ==
  /\ toolPc = "loop" /\ savePc = "idle"
  /\ toolPc' = "done"
  /\ runRet' = IF Len(toolZones) > 0 THEN "True" ELSE "False"
  /\ UNCHANGED <<toolZones, drawing, start_point, end_point, current_zone, toolFrame>>

\* 'S' with zones (lines 170-172): save_zones() is entered.
KeyS == toolPc = "loop" /\ SaveOpen

\* 'S' with zones, open() raising: save_zones returns False, the loop goes on.
KeySOpenFail == toolPc = "loop" /\ SaveOpenFail

\* 'L' (lines 178-180): load_zones().
KeyL == toolPc = "loop" /\ ToolLoad

\* 'C' (lines 182-184): self.zones = [].
KeyC ==
  /\ toolPc = "loop" /\ savePc = "idle"
  /\ toolZones' = <<>>
  /\ UNCHANGED <<toolPc, runRet, drawing, start_point, end_point, current_zone, toolFrame>>

ToolFiles == {NoFile, File(json_dump(<<NewZone("desk", <<0, 0, 50, 50>>)>>))}

InitTool ==
  /\ zoneFile \in ToolFiles
  /\ toolZones = <<>>
  /\ savePc = "idle" /\ savePending = <<>> /\ saveRet = "none"
  /\ savePrior = <<>> /\ saveNew = <<>> /\ saveCount = 0
  /\ vmLoad = NoLoad /\ detLoad = NoLoad
  /\ detZones = <<>>
  /\ WorkerIdle /\ ResolveIdle /\ QueryIdle /\ LifeIdle /\ readInFrame = FALSE
  /\ ToolIdle /\ AskIdle

NextTool ==
  \/ RunStart \/ RunOpenFail \/ RunReadFail
  \/ MouseDown \/ MouseMove \/ MouseUp \/ NameTyped \/ NameEOF
  \/ KeyQ \/ KeyS \/ KeySOpenFail \/ KeyL \/ KeyC
  \/ SaveWrite \/ SaveClose \/ SaveFail

SpecTool == InitTool /\ [][NextTool]_vars

\* width > 0, height > 0, a name that is not empty, no name twice
ValidZoneSet(zs) ==
  /\ \A i \in 1..Len(zs) :
       /\ "bbox" \in DOMAIN zs[i] /\ "name" \in DOMAIN zs[i]
       /\ zs[i].bbox.v[3] > 0 /\ zs[i].bbox.v[4] > 0
       /\ zs[i].name # ""
  /\ \A i, j \in 1..Len(zs) : i # j => zs[i].name # zs[j].name

----------------------------------------------------------------------------
(* C24, C25, C27: the zone tool (SpecTool) *)

\* C24: when save_zones has returned True the change marker zones.json.updated
\* has been written, and a failed save_zones leaves the marker as it was.
C24_SaveWritesMarker ==
  /\ (savePc = "idle" /\ saveRet = "ok") => markerFile.exists
  /\ (savePc = "idle" /\ saveRet \in {"failed_open", "failed_write"}) => markerFile = NoFile

\* C25: after any sequence of mouse and key events the tool's zone set, and
\* the zone set a successful save_zones has left in zones.json, have positive
\* width and height, names that are not empty, and no name twice.
C25_ZoneSetInvariant ==
  /\ ValidZoneSet(toolZones)
  /\ (savePc = "idle" /\ saveRet = "ok") => ValidZoneSet(load_custom_zones(zoneFile))

\* C27: run returns True only if save_zones returned True during that run and
\* zones.json holds the tool's zone set.
C27_RunTrueOnlyIfPersisted ==
  (toolPc = "done" /\ runRet = "True") =>
     /\ savedInRun
     /\ Entries(load_custom_zones(zoneFile)) = Entries(toolZones)

----------------------------------------------------------------------------
(* redefine_zones while the worker runs (SpecEdit) *)

\* ZoneFocusedAIHomeAssistant.redefine_zones once zone_tool.run has returned
\* (lines 149-152): on True load_custom_zones() for the printout; the
\* detector's reload is still to come, and the worker runs meanwhile.
ZoneFocusedRedefineZones ==
  /\ mode = "zone_only" /\ toolPc = "done"
  /\ IF runRet = "True"
       THEN /\ toolPc' = "reload"
            /\ vmLoad' = LoadRecord(load_custom_zones(zoneFile), <<>>)
       ELSE /\ toolPc' = "off"
            /\ UNCHANGED vmLoad
  /\ UNCHANGED <<storeVars, detZones, detLoad, workerVars, resolveVars, queryVars, lifeVars,
                 readInFrame, runRet, drawing, start_point, end_point, current_zone, savedInRun,
                 markerFile, askVars>>

\* ZoneFocusedAIHomeAssistant.redefine_zones, self.object_detector.load_zones()
\* (line 155), after which redefine_zones returns.
ZoneFocusedReload ==
  /\ mode = "zone_only" /\ toolPc = "reload"
  /\ toolPc' = "off"
  /\ detZones' = load_zones(zoneFile, detZones)
  /\ detLoad' = LoadRecord(load_zones(zoneFile, detZones), detZones)
  /\ UNCHANGED <<storeVars, vmLoad, workerVars, resolveVars, queryVars, lifeVars,
                 readInFrame, runRet, drawing, start_point, end_point, current_zone, savedInRun,
                 markerFile, askVars>>

\* EnhancedAIHomeAssistant.redefine_zones once zone_tool.run has returned:
\* on True load_custom_zones() for the printout; the detector is not told.
EnhancedRedefineZones ==
  /\ mode = "generic" /\ toolPc = "done"
  /\ toolPc' = "off"
  /\ IF runRet = "True"
       THEN vmLoad' = LoadRecord(load_custom_zones(zoneFile), <<>>)
       ELSE UNCHANGED vmLoad
  /\ UNCHANGED <<storeVars, detZones, detLoad, workerVars, resolveVars, queryVars, lifeVars,
                 readInFrame, runRet, drawing, start_point, end_point, current_zone, savedInRun,
                 markerFile, askVars>>

\* The frames of these runs: 100 x 100 with one box.
EditFrames == {f \in FramesInBounds : f.w = 100 /\ f.h = 100 /\ Len(f.boxes) = 1}

GenericCaptureEdit == GenericCaptureOf(EditFrames)
ZoneCaptureEdit == ZoneCaptureOf(EditFrames)

EditFiles == {NoFile, File(json_dump(<<NewZone("desk", <<0, 0, 50, 50>>)>>))}

\* The assistant is running, the worker is in its loop; redefine_zones has
\* called run and the operator has cleared the zones and drawn one.
InitEdit ==
  /\ mode \in {"generic", "zone_only"}
  /\ zoneFile \in EditFiles
  /\ toolZones = <<NewZone("bed", <<50, 50, 50, 50>>)>>
  /\ savePc = "idle" /\ savePending = <<>> /\ saveRet = "none"
  /\ savePrior = <<>> /\ saveNew = <<>> /\ saveCount = 0
  /\ vmLoad = NoLoad /\ detLoad = NoLoad
  /\ detZones = IF mode = "zone_only" THEN load_zones(zoneFile, <<>>) ELSE <<>>
  /\ wpc = "loop" /\ frame = NoFrame /\ frameZonesEmpty = FALSE
  /\ detections = <<>> /\ idx = 0 /\ log = <<>> /\ framesRead = 0
  /\ ResolveIdle /\ QueryIdle /\ LifeIdle /\ readInFrame = FALSE
  /\ toolPc = "loop" /\ runRet = "none" /\ drawing = FALSE /\ start_point = <<>>
  /\ end_point = <<>> /\ current_zone = <<>> /\ savedInRun = FALSE /\ markerFile = NoFile
  /\ AskIdle

NextEdit ==
  \/ GenericCaptureEdit \/ GenericSave
  \/ ZoneCaptureEdit \/ ZoneDetectBox \/ ZoneDraw \/ ZoneSave
  \/ RunStart \/ KeyS \/ SaveWrite \/ SaveClose \/ SaveFail \/ KeyQ
  \/ ZoneFocusedRedefineZones \/ ZoneFocusedReload \/ EnhancedRedefineZones

SpecEdit == InitEdit /\ [][NextEdit]_vars

----------------------------------------------------------------------------
(* C21: zone edits take effect (SpecEdit) *)

\* The load by which redefine_zones makes the saved zones known: the detector's
\* load_zones() in ZoneFocusedAIHomeAssistant, load_custom_zones() in
\* EnhancedAIHomeAssistant (whose worker reads the file for every detection).
Signal == IF mode = "zone_only" THEN detLoad ELSE vmLoad

\* C21: once redefine_zones has given its signal after a successful
\* save_zones, and until another save begins, every fact of a frame captured
\* after the signal was resolved against the zone set that was saved.
C21_EditsTakeEffect ==
  (Signal.done /\ Signal.ret = "ok" /\ Signal.saves = saveCount) =>
     \A i \in 1..Len(log) :
        log[i].hist.frame > Signal.frame =>
           Entries(log[i].hist.zones) = Entries(Signal.new)

\* C21 witness: zone-only mode; a fact of the first frame was resolved against
\* [desk], then [bed] was saved and signalled, and a fact of the second frame
\* was resolved against [bed].
C21_Witness ==
  /\ mode = "zone_only"
  /\ detLoad.done /\ detLoad.ret = "ok" /\ detLoad.saves = saveCount /\ detLoad.frame = 1
  /\ Len(log) = 2
  /\ log[1].hist.frame = 1 /\ log[1].location_description = "desk"
  /\ log[2].hist.frame = 2 /\ log[2].location_description = "bed"
  /\ Entries(log[2].hist.zones) = Entries(detLoad.new)
  /\ Entries(detLoad.prior) # Entries(detLoad.new)

----------------------------------------------------------------------------
(* C29: the two resolvers against each other (SpecResolve) *)

\* C29: on one zone set, frame size and bbox, the strict resolver returns a
\* zone name exactly when the lenient one returns that name from its zone
\* loop, and "outside_zones" exactly when the lenient one returns a quadrant
\* label.
C29_ResolversAgree ==
  (rOut.strict # "" /\ rOut.lenient # "") =>
     /\ rOut.strict # "outside_zones" => rOut.lenient = rOut.strict
     /\ rOut.lenient \notin QuadrantLabels => rOut.strict = rOut.lenient
     /\ rOut.strict = "outside_zones" <=> rOut.lenient \in QuadrantLabels

\* C29 witness: of two zones with different names only the second holds the
\* centre; both resolvers answered its name.
C29_Witness ==
  /\ Len(rIn.zones) = 2 /\ Hits(Center2(rIn.bbox), rIn.zones) = {2}
  /\ rIn.zones[1].name # rIn.zones[2].name
  /\ rOut.strict = rIn.zones[2].name
  /\ rOut.lenient = rIn.zones[2].name

----------------------------------------------------------------------------
(* ask_question and the Ollama client (SpecAsk) *)

(* The server at base_url is "up" or "down" and changes at any time; each     *)
(* request meets it as it is at that moment.  ask is the call in progress:    *)
(* [op, pc, question, recent, attempt, outcomes, downAt, out] with, as        *)
(* history, the outcomes of its POSTs and whether a request of the call met   *)
(* the server down.  out.kind names the text returned:                        *)
(*   "not_running"    "Home assistant is not running. ..."                    *)
(*   "no_detections"  "I haven't detected any objects recently ..."           *)
(*   "simple"         _simple_answer                                          *)
(*   "generated"      result.get('response', ...) with the key present        *)
(*   "no_response"    'No response generated'                                 *)
(*   "http_error"     "Error: <status> - <text>"                              *)
(*   "error"          "Error communicating with Ollama: ..."                  *)
(*   "timeout"        "Request timed out. Please try again."                  *)
(*   "unavailable"    "Ollama service is not available. ..."                  *)
(*   "None"           the function ran off its end                            *)

\* timeouts = [120, 120]
timeouts == <<120, 120>>

\* get_recent_detections(hours=24, limit=20) in EnhancedAIHomeAssistant,
\* (hours=0.08, limit=50) in ZoneFocusedAIHomeAssistant; hours in half seconds.
AskHours(m) == IF m = "generic" THEN 172800 ELSE 576
AskLimit(m) == IF m = "generic" THEN 20 ELSE 50

\* The clock when the question is asked: one day after the clock's zero.
AskNow == AskHours("generic")

\* str.lower() and `a in b` on the texts of these runs.
str_lower(text) == [i \in DOMAIN text |-> AsciiLower(text[i])]
str_in(a, b) == \E i \in 0..(Len(b) - Len(a)) : SubSeq(b, i + 1, i + Len(a)) = a

\* The first of get_all_objects() whose lower-case name is in the lower-case
\* question; 0 when there is none.
Mentioned(names, question) ==
  IF \E i \in DOMAIN names : str_in(str_lower(names[i]), str_lower(question))
    THEN CHOOSE i \in DOMAIN names :
           /\ str_in(str_lower(names[i]), str_lower(question))
           /\ \A j \in 1..(i - 1) : ~str_in(str_lower(names[j]), str_lower(question))
    ELSE 0

\* _simple_answer(question, detections)
simple_answer(rows, question, recent) ==
  LET names == get_all_objects(rows)
      m     == Mentioned(names, question)
  IN  IF m # 0
        THEN LET history == get_object_history(rows, names[m], 5)
             IN  IF history # <<>>
                   THEN [kind |-> "simple", form |-> "last_seen", object |-> names[m],
                         timestamp |-> history[1].timestamp,
                         location |-> history[1].location_description]
                   ELSE [kind |-> "simple", form |-> "no_information", object |-> names[m]]
        ELSE [kind |-> "simple", form |-> "recent_objects",
              objects |-> {recent[i].object_name : i \in DOMAIN recent}]

\* requests.post(..., timeout=timeout_s) against the server as it is.
PostOutcomes(srv) ==
  IF srv = "up" THEN {"ok", "no_key", "not_json", "status", "timeout"}
  ELSE {"refused", "timeout"}

\* What generate_response returns for a POST that did not time out.
ResultOf(outcome) ==
  [kind |-> IF outcome = "ok" THEN "generated"
            ELSE IF outcome = "no_key" THEN "no_response"
            ELSE IF outcome = "status" THEN "http_error"
            ELSE "error"]

last_attempt_never(attempt) == attempt = Len(timeouts) + 1

\* `if attempt == len(timeouts)` (line 46)
last_attempt(attempt) == attempt = Len(timeouts)

askFrame == <<storeVars, vmLoad, detZones, detLoad, workerVars, resolveVars, queryVars,
              lifeVars, readInFrame, toolVars>>

NewCall(op, question, recent, pc) ==
  [op |-> op, pc |-> pc, question |-> question, recent |-> recent, attempt |-> 0,
   outcomes |-> <<>>, downAt |-> FALSE, out |-> [kind |-> "none"]]

Questions == {<<"T", "V">>, <<"k", "e", "y">>}

(* start(), stop() and ask_question are called one after the other by the     *)
(* prompt loop of main(); callerPc is the place of that thread in start() or  *)
(* stop(): "idle", "start_tool" (zone_tool.run asked for), "start_check",     *)
(* "start_detect", "stop_detect", "joining".  The camera of these runs         *)
(* delivers no frame, so the log is what earlier runs left in the database.   *)

\* What start() and stop() leave alone.
startFrame == <<zoneFile, toolZones, savePc, savePending, saveRet, savePrior, saveNew,
                saveCount, detLoad, workerVars, resolveVars, queryVars, readInFrame,
                runRet, drawing, start_point, end_point, current_zone, savedInRun, markerFile,
                service, ask>>

\* What the operator answers to "Type 'y' to define zones, or 'n' ...".
Responses == {"y", "n"}

\* start() up to the zone tool (lines 27-37): `if not os.path.exists(
\* self.zones_file)` the operator is asked, and 'y' runs the zone tool.
AssistantStart ==
  /\ callerPc = "idle" /\ ask = NoAsk
  /\ Len(threads) < MaxStarts
  /\ IF zoneFile.exists
       THEN callerPc' = "start_check"
       ELSE \E response \in Responses :
              callerPc' = IF response = "y" THEN "start_tool" ELSE "start_check"
  /\ UNCHANGED <<is_running, is_detecting, detection_thread, threads, lastStop, toolPc,
                 vmLoad, detZones, startFrame>>

\* self.zone_tool.run(camera_index) called by start(): the tool's loop begins,
\* or the camera cannot be opened.
StartRunTool == callerPc = "start_tool" /\ toolPc = "off" /\ RunStart
StartRunToolOpenFail == callerPc = "start_tool" /\ toolPc = "off" /\ RunOpenFail

\* run has returned; whatever it returned, start() goes on (lines 34-37).
StartToolReturned ==
  /\ callerPc = "start_tool" /\ toolPc = "done"
  /\ callerPc' = "start_check"
  /\ toolPc' = "off"
  /\ UNCHANGED <<is_running, is_detecting, detection_thread, threads, lastStop,
                 vmLoad, detZones, startFrame>>

\* start(), lines 39-54: is_available() for the printout, load_custom_zones()
\* for the printout, self.is_running = True.
StartCheck ==
  /\ callerPc = "start_check"
  /\ vmLoad' = LoadRecord(load_custom_zones(zoneFile), <<>>)
  /\ is_running' = TRUE
  /\ callerPc' = "start_detect"
  /\ UNCHANGED <<is_detecting, detection_thread, threads, lastStop, toolPc, detZones,
                 zoneFile, toolZones, savePc, savePending, saveRet, savePrior, saveNew,
                 saveCount, detLoad, workerVars, resolveVars, queryVars, readInFrame,
                 runRet, drawing, start_point, end_point, current_zone, savedInRun, markerFile,
                 service, ask>>

\* start(), line 55: object_detector.start_continuous_detection(camera_index),
\* in ZoneFocusedDetector with load_zones() first.
StartContinuousDetection ==
  /\ callerPc = "start_detect"
  /\ detZones' = IF mode = "zone_only" THEN load_zones(zoneFile, detZones) ELSE detZones
  /\ is_detecting' = TRUE
  /\ threads' = Append(threads, NewThread)
  /\ detection_thread' = Len(threads) + 1
  /\ callerPc' = "idle"
  /\ UNCHANGED <<is_running, lastStop, toolPc, vmLoad, startFrame>>

\* stop(), line 65 (66): self.is_running = False.
AssistantStop ==
  /\ callerPc = "idle" /\ ask = NoAsk
  /\ is_running' = FALSE
  /\ callerPc' = "stop_detect"
  /\ UNCHANGED <<is_detecting, detection_thread, threads, lastStop, toolPc, vmLoad,
                 detZones, startFrame>>

\* stop(), object_detector.stop_detection(): the flag is cleared and the
\* caller joins the thread of the last start, if there was one (StopJoin).
AssistantStopDetection ==
  /\ callerPc = "stop_detect"
  /\ is_detecting' = FALSE
  /\ IF detection_thread = 0
       THEN /\ lastStop' = [returned |-> TRUE, alive |-> Alive]
            /\ callerPc' = "idle"
       ELSE /\ callerPc' = "joining"
            /\ UNCHANGED lastStop
  /\ UNCHANGED <<is_running, detection_thread, threads, toolPc, vmLoad, detZones, startFrame>>

\* The server starts, stops, becomes reachable or unreachable.
ServiceChange ==
  /\ service' = IF service = "up" THEN "down" ELSE "up"
  /\ UNCHANGED <<is_running, ask, askFrame>>

\* ask_question up to the availability check (lines 69-78).
AskQuestion ==
  /\ ask = NoAsk /\ callerPc = "idle"
  /\ \E q \in Questions :
       LET recent == get_recent_detections(log, now, AskHours(mode), AskLimit(mode))
       IN  ask' = IF ~is_running
                    THEN [NewCall("ask", q, <<>>, "returned") EXCEPT
                            !.out = [kind |-> "not_running"]]
                  ELSE IF recent = <<>>
                    THEN [NewCall("ask", q, recent, "returned") EXCEPT
                            !.out = [kind |-> "no_detections"]]
                  ELSE NewCall("ask", q, recent, "available")
  /\ UNCHANGED <<is_running, service, askFrame>>

\* `if self.ollama_client.is_available()` (lines 81-85): GET /api/tags; True
\* goes on into answer_object_question -> generate_response, False returns
\* _simple_answer.
AskAvailable ==
  /\ ask # NoAsk /\ ask.pc = "available"
  /\ ask' = IF service = "up"
              THEN [ask EXCEPT !.pc = "gen_available"]
              ELSE [ask EXCEPT !.pc = "returned", !.downAt = TRUE,
                               !.out = simple_answer(log, ask.question, ask.recent)]
  /\ UNCHANGED <<is_running, service, askFrame>>

\* OllamaClient.generate_response called by itself.
GenerateResponse ==
  /\ ask = NoAsk /\ callerPc = "idle"
  /\ \E q \in Questions : ask' = NewCall("generate", q, <<>>, "gen_available")
  /\ UNCHANGED <<is_running, service, askFrame>>

\* generate_response, `if not self.is_available()` (lines 22-23).
GenAvailable ==
  /\ ask # NoAsk /\ ask.pc = "gen_available"
  /\ ask' = IF service = "up"
              THEN [ask EXCEPT !.pc = "post", !.attempt = 1]
              ELSE [ask EXCEPT !.pc = "returned", !.downAt = TRUE,
                               !.out = [kind |-> "unavailable"]]
  /\ UNCHANGED <<is_running, service, askFrame>>

\* One pass of `for attempt, timeout_s in enumerate(timeouts, start=1)`
\* (lines 29-49): the POST and what is made of its outcome.  After a timeout
\* that is not the last attempt's the loop goes on; when the loop has no
\* attempt left the function ends without a return statement.
GenPost ==
  /\ ask # NoAsk /\ ask.pc = "post"
  /\ \E outcome \in PostOutcomes(service) :
       LET seen == [ask EXCEPT !.outcomes = Append(ask.outcomes, outcome),
                               !.downAt = ask.downAt \/ service = "down"]
       IN  ask' =
             IF outcome # "timeout"
               THEN [seen EXCEPT !.pc = "returned", !.out = ResultOf(outcome)]
             ELSE IF last_attempt(ask.attempt)
               THEN [seen EXCEPT !.pc = "returned", !.out = [kind |-> "timeout"]]
             ELSE IF ask.attempt < Len(timeouts)
               THEN [seen EXCEPT !.attempt = ask.attempt + 1]
             ELSE [seen EXCEPT !.pc = "returned", !.out = [kind |-> "None"]]
  /\ UNCHANGED <<is_running, service, askFrame>>

\* The caller takes the answer.
AskReturn ==
  /\ ask # NoAsk /\ ask.pc = "returned"
  /\ ask' = NoAsk
  /\ UNCHANGED <<is_running, service, askFrame>>

AskInputs == {in \in LogInputs : in.object_name \in {<<"t", "v">>, <<"c", "u", "p">>}}
AskTimes == {0, AskNow - 576, AskNow}
AskEntries == {[in |-> in, at |-> t] : in \in AskInputs, t \in AskTimes}

RECURSIVE LogOf(_)
LogOf(entries) ==
  IF entries = <<>> THEN <<>>
  ELSE LET e == entries[Len(entries)]
       IN  add_detection(LogOf(SubSeq(entries, 1, Len(entries) - 1)), e.at,
                         e.in.object_name, 90, PyTuple(<<10, 10, 5, 5>>), <<100, 100>>,
                         e.in.location_description, [mode |-> "api"])

\* The assistant as __init__ leaves it; the database holds the rows of
\* earlier runs.
InitAsk ==
  /\ mode \in {"generic", "zone_only"}
  /\ is_running = FALSE
  /\ service \in {"up", "down"}
  /\ ask = NoAsk
  /\ log \in {LogOf(es) : es \in SeqsUpTo(AskEntries, MaxAsked)}
  /\ now = AskNow /\ locations = <<>> /\ qOut = NoQuery
  /\ LifeIdle
  /\ zoneFile \in ToolFiles /\ toolZones = <<>>
  /\ savePc = "idle" /\ savePending = <<>> /\ saveRet = "none"
  /\ savePrior = <<>> /\ saveNew = <<>> /\ saveCount = 0
  /\ vmLoad = NoLoad /\ detLoad = NoLoad /\ detZones = <<>>
  /\ wpc = "off" /\ frame = NoFrame /\ frameZonesEmpty = FALSE
  /\ detections = <<>> /\ idx = 0 /\ framesRead = 0
  /\ ResolveIdle /\ readInFrame = FALSE /\ ToolIdle

NextAsk ==
  \/ AssistantStart \/ StartRunTool \/ StartRunToolOpenFail \/ KeyQ \/ RunReadFail
  \/ StartToolReturned \/ StartCheck \/ StartContinuousDetection
  \/ AssistantStop \/ AssistantStopDetection \/ StopJoin
  \/ \E t \in DOMAIN threads : WorkerOpen(t)
  \/ \E t \in DOMAIN threads : WorkerOpenFail(t)
  \/ \E t \in DOMAIN threads : WorkerWhile(t)
  \/ \E t \in DOMAIN threads : WorkerReadFail(t)
  \/ \E t \in DOMAIN threads : WorkerFinally(t)
  \/ ServiceChange \/ AskQuestion \/ AskAvailable \/ GenerateResponse
  \/ GenAvailable \/ GenPost \/ AskReturn

SpecAsk == InitAsk /\ [][NextAsk]_vars

\* generate_response called by itself, the assistant's log left empty.
InitGenerate ==
  /\ InitAsk
  /\ log = <<>>

NextGenerate ==
  \/ ServiceChange \/ GenerateResponse \/ GenAvailable \/ GenPost \/ AskReturn

\* A call that has been made goes on: the thread runs, and every request
\* comes back (response, error or timeout after timeout_s seconds).
SpecGenerate ==
  InitGenerate /\ [][NextGenerate]_vars /\ WF_vars(GenAvailable \/ GenPost)

----------------------------------------------------------------------------
(* C23, C28: answers without the answer generator (SpecAsk, SpecGenerate) *)

\* C23: when a request of ask_question (on a running assistant with a recent
\* detection) met the server down, the answer returned is _simple_answer's.
C23_FallsBackToSimpleAnswer ==
  (ask # NoAsk /\ ask.op = "ask" /\ ask.pc = "returned" /\ ask.downAt) =>
     ask.out.kind = "simple"

\* What holds of generate_response at every moment: at most two POSTs, a
\* second only after a first that timed out, nothing after a POST that did
\* not time out, and a text returned that is the last POST's result.
GenerateBounded ==
  ask # NoAsk =>
    /\ Len(ask.outcomes) <= 2
    /\ Len(ask.outcomes) = 2 => ask.outcomes[1] = "timeout"
    /\ ask.pc = "post" => \A i \in DOMAIN ask.outcomes : ask.outcomes[i] = "timeout"
    /\ (ask.pc = "returned" /\ ask.outcomes # <<>>) =>
         /\ ask.out.kind # "None"
         /\ ask.out = IF ask.outcomes[Len(ask.outcomes)] = "timeout"
                        THEN [kind |-> "timeout"]
                        ELSE ResultOf(ask.outcomes[Len(ask.outcomes)])

\* C28: generate_response always comes to return a text, after at most two
\* POSTs, the second only after a timeout of the first; a response or an error
\* other than a timeout ends the call with that attempt's result.
C28_GenerateTerminates ==
  /\ []GenerateBounded
  /\ (ask # NoAsk /\ ask.pc = "gen_available") ~> (ask # NoAsk /\ ask.pc = "returned")

\* C28 witness: the first POST timed out, the second got a response without
\* the 'response' key, and 'No response generated' was returned.
C28_Witness ==
  /\ ask # NoAsk /\ ask.op = "generate" /\ ask.pc = "returned"
  /\ ask.outcomes = <<"timeout", "no_key">>
  /\ ask.out.kind = "no_response"

----------------------------------------------------------------------------
(* C22: a resolution against a zone set under replacement (SpecIngest) *)

\* C22: a fact written while save_zones is replacing zones.json was resolved
\* against one complete zone set: the set persisted before the save began or
\* the set being saved.
C22_ResolvesOnOldOrNew ==
  [][(savePc = "writing" /\ Len(log') = Len(log) + 1) =>
        Entries(log'[Len(log')].hist.zones) \in {Entries(savePrior), Entries(saveNew)}]_vars

----------------------------------------------------------------------------
(* C26: the flag against the worker (SpecLife) *)

\* C26: while is_detecting is set a worker thread is alive; a worker that has
\* ended by itself does not leave the flag set.
C26_FlagTracksWorker == is_detecting => Alive # {}

====
